---------------------------- MODULE Spec2Model ----------------------------
(***************************************************************************)
(* Lotofacil API (src/main.py): the multi-tier draw resolver with its TTL  *)
(* cache, the collectors built on it, the statistics / suggestion engine   *)
(* and the historical simulation.                                          *)
(*                                                                         *)
(* Values that are None, a dict or a list in the Python source are tagged  *)
(* records here ([k |-> "none"], [k |-> "draw", ...]) so that any two of   *)
(* them can be compared.                                                   *)
(***************************************************************************)
EXTENDS Integers, Sequences, FiniteSets, TLC

VARIABLES
    \* ---- resolver, collectors, simulation (Spec, SpecSim) ----
    prefer_mirror,  \* PREFER_MIRROR, fixed when the module is loaded
    upstream,       \* what the upstream sources hold (the environment)
    time,           \* time.time()
    _caixa_cache,   \* key -> [ts, payload]
    _agg_cache,     \* key -> [ts, payload], the answers of the endpoints
    procs,          \* the requests in flight
    ncalls,         \* requests started so far
    \* ---- statistics / suggestion engine (SpecPure) ----
    draws,          \* the draw sequence handed to the pure functions
    out             \* what the last applied function returned

net_vars ==
    <<prefer_mirror, upstream, time, _caixa_cache, _agg_cache, procs, ncalls>>
pure_vars == <<draws, out>>
vars ==
    <<prefer_mirror, upstream, time, _caixa_cache, _agg_cache, procs, ncalls,
      draws, out>>

-----------------------------------------------------------------------------
(* Bounds of the model *)

\* Longest draw sequence handed to the statistics functions.
MaxDraws == 4

\* Contests the upstream of Spec holds (1..MaxContest).
MaxContest == 1

\* Contests the upstream of SpecCollect holds (1..MaxLatest).
MaxLatest == 2

\* The clock runs from 0 to MaxTime.
MaxTime == 2

\* Requests started in one behaviour of Spec.
MaxCalls == 2

\* Contests the upstream of SpecWalk holds (1..MaxWalk).
MaxWalk == 3

\* Contests the longest upstream history of SpecSim holds.
MaxHistory == 22

-----------------------------------------------------------------------------
(* Small helpers *)

None == [k |-> "none"]

Min(a, b) == IF a <= b THEN a ELSE b
Max(a, b) == IF a >= b THEN a ELSE b

Range(s) == {s[i] : i \in DOMAIN s}

RECURSIVE SumSeq(_)
SumSeq(s) == IF Len(s) = 0 THEN 0 ELSE Head(s) + SumSeq(Tail(s))

\* Python's s[:k]: the first k elements, or all but the last -k when k < 0.
Slice(s, k) ==
    IF k >= 0 THEN SubSeq(s, 1, Min(k, Len(s)))
    ELSE SubSeq(s, 1, Max(0, Len(s) + k))

\* Python's int(w * r) for r = num/10: truncation toward zero.  (The float
\* product agrees with the exact one for every |w| < 90.)
IntTenths(w, num) ==
    IF w >= 0 THEN (w * num) \div 10 ELSE -(((-w) * num) \div 10)

\* sorted(S) of a set of integers.
RECURSIVE SortedSeq(_)
SortedSeq(S) ==
    IF S = {} THEN <<>>
    ELSE LET m == CHOOSE x \in S : \A y \in S : x <= y
         IN <<m>> \o SortedSeq(S \ {m})

\* sorted(list) of a list of integers (duplicates kept).
RECURSIVE InsertAsc(_, _)
InsertAsc(s, x) ==
    IF Len(s) = 0 THEN <<x>>
    ELSE IF x < Head(s) THEN <<x>> \o s
    ELSE <<Head(s)>> \o InsertAsc(Tail(s), x)

RECURSIVE SortedList(_)
SortedList(s) ==
    IF Len(s) = 0 THEN <<>> ELSE InsertAsc(SortedList(Tail(s)), Head(s))

-----------------------------------------------------------------------------
(* Utils: src/main.py 220-226 *)

\* a variant without the len(set(nums)) == 15 test
valid_15_unique_repeats(nums) ==
    /\ Len(nums) = 15
    /\ \A i \in DOMAIN nums : 1 <= nums[i] /\ nums[i] <= 25

valid_15_unique(nums) ==
    /\ Len(nums) = 15
    /\ Cardinality(Range(nums)) = 15
    /\ \A i \in DOMAIN nums : 1 <= nums[i] /\ nums[i] <= 25

histogram_even_odd(numbers) ==
    LET e == Cardinality({i \in DOMAIN numbers : numbers[i] % 2 = 0})
    IN <<e, 15 - e>>

-----------------------------------------------------------------------------
(* StatsEngine: src/main.py 250-293 *)

CountIn(numbers, x) == Cardinality({i \in DOMAIN numbers : numbers[i] = x})

\* counts[x] += 1 for every x of every draw of ds
\* (Counts_first_only: the inner loop run on the first number only)
Counts_first_only(ds) ==
    [n \in 1..25 |->
        SumSeq([i \in DOMAIN ds |-> CountIn(SubSeq(ds[i].numbers, 1, 1), n)])]

Counts(ds) ==
    [n \in 1..25 |-> SumSeq([i \in DOMAIN ds |-> CountIn(ds[i].numbers, n)])]

\* round(x, 1) of x = 100 * c / total, in tenths of a percent (half to even).
PctTenths(c, total) ==
    LET q == (c * 1000) \div total
        r == (c * 1000) % total
    IN IF 2 * r > total \/ (2 * r = total /\ q % 2 = 1) THEN q + 1 ELSE q

frequencies(ds) ==
    LET counts == Counts(ds)
        total == Max(1, Len(ds))
    IN [n \in 1..25 |->
            [n |-> n, count |-> counts[n], pct |-> PctTenths(counts[n], total)]]

\* sorted(draws, key=contest, reverse=True): stable, equal keys keep their
\* order.  PlaceByContestDesc(s, i) is the place s[i] takes in the result.
PlaceByContestDesc(s, i) ==
    1 + Cardinality({j \in DOMAIN s :
                        \/ s[j].contest > s[i].contest
                        \/ s[j].contest = s[i].contest /\ j < i})

SortByContestDesc(s) ==
    LET place == [i \in DOMAIN s |-> PlaceByContestDesc(s, i)]
    IN [k \in DOMAIN s |-> s[CHOOSE i \in DOMAIN s : place[i] = k]]

\* lines 281-285: the three buckets, each its own comprehension
IsHot_exclusive(c, window) == c > IntTenths(window, 7)

IsHot(c, window) == c >= IntTenths(window, 7)

IsWarm(c, window) == IntTenths(window, 3) <= c /\ c < IntTenths(window, 7)

IsCold(c, window) == c < IntTenths(window, 3)

\* lines 261-262: the window actually used
TrendWindow(ds, window_arg) ==
    IF Len(ds) = 0 \/ Len(ds) < window_arg THEN Len(ds) ELSE window_arg

\* lines 281-293: the buckets of the counts over the recent draws
TrendOf(counts, window) ==
    [hot  |-> SortedSeq({n \in 1..25 : IsHot(counts[n], window)}),
     warm |-> SortedSeq({n \in 1..25 : IsWarm(counts[n], window)}),
     cold |-> SortedSeq({n \in 1..25 : IsCold(counts[n], window)}),
     counts |-> counts,
     window_used |-> window]

classify_trend(ds, window_arg) ==
    TrendOf(Counts(Slice(SortByContestDesc(ds), TrendWindow(ds, window_arg))),
            TrendWindow(ds, window_arg))

-----------------------------------------------------------------------------
(* SuggestionBuilder: src/main.py 296-457, 511-518 *)

\* a variant that allows fewer than max_repeat repeated numbers only
limit_repetition_below(candidate, last_draw, max_repeat) ==
    Cardinality(Range(candidate) \cap Range(last_draw)) < max_repeat

limit_repetition(candidate, last_draw, max_repeat) ==
    Cardinality(Range(candidate) \cap Range(last_draw)) <= max_repeat

valid_sum(numbers, min_sum, max_sum) ==
    LET total == SumSeq(numbers)
    IN min_sum <= total /\ total <= max_sum

\* sorted(fs, key=lambda x: (-x["count"], x["n"])) of a list of frequency rows
RanksBefore(a, b) ==
    a.count > b.count \/ (a.count = b.count /\ a.n < b.n)

RECURSIVE InsertRanked(_, _)
InsertRanked(s, f) ==
    IF Len(s) = 0 THEN <<f>>
    ELSE IF RanksBefore(f, Head(s)) THEN <<f>> \o s
    ELSE <<Head(s)>> \o InsertRanked(Tail(s), f)

RECURSIVE SortRanked(_)
SortRanked(s) ==
    IF Len(s) = 0 THEN <<>> ELSE InsertRanked(SortRanked(Tail(s)), Head(s))

\* [f for f in fs if P(f)], the order kept
RECURSIVE FilterParity(_, _)
FilterParity(fs, parity) ==
    IF Len(fs) = 0 THEN <<>>
    ELSE IF Head(fs).n % 2 = parity
         THEN <<Head(fs)>> \o FilterParity(Tail(fs), parity)
         ELSE FilterParity(Tail(fs), parity)

RECURSIVE FilterAllowed(_, _)
FilterAllowed(fs, allowed) ==
    IF Len(fs) = 0 THEN <<>>
    ELSE IF Head(fs).n \in allowed
         THEN <<Head(fs)>> \o FilterAllowed(Tail(fs), allowed)
         ELSE FilterAllowed(Tail(fs), allowed)

NsOf(fs) == [i \in DOMAIN fs |-> fs[i].n]

\* lines 394-400: the refill when one parity came up short.  od is drawn
\* from ev, which by then holds even numbers only.
Refill(freq_all, even_needed, odd_needed) ==
    LET ev0 == SortRanked(freq_all)
        ev  == Slice(FilterParity(ev0, 0), even_needed)
        od  == Slice(FilterParity(ev, 1), odd_needed)
    IN [ev |-> ev, od |-> od]

\* lines 383-400: the selection by parity
SelectByParity(freq, freq_all, even_needed, odd_needed) ==
    LET ev == Slice(SortRanked(FilterParity(freq, 0)), even_needed)
        od == Slice(SortRanked(FilterParity(freq, 1)), odd_needed)
    IN IF Len(ev) < even_needed \/ Len(od) < odd_needed
       THEN Refill(freq_all, even_needed, odd_needed)
       ELSE [ev |-> ev, od |-> od]

\* a variant that resets every pair not summing to 15, without clamping
ParitySplit_reset_only(even_arg, odd_arg) ==
    IF even_arg + odd_arg # 15 THEN <<8, 7>> ELSE <<even_arg, odd_arg>>

\* lines 339-342: the parity split actually used
ParitySplit(even_arg, odd_arg) ==
    LET e == Max(0, Min(15, even_arg))
        o == Max(0, Min(15 - e, odd_arg))
    IN IF e + o # 15 THEN <<8, 7>> ELSE <<e, o>>

\* lines 371-378: the candidate pool, with the fallback to the whole table
CandidatePool(freq_all, allowed) ==
    LET freq == FilterAllowed(freq_all, allowed)
    IN IF Len(freq) = 0 \/ Len(freq) < 15 THEN freq_all ELSE freq

\* a variant that takes one draw as enough
InsufficientDraws_empty_only(ds) == Len(ds) = 0

\* line 312: if not draws or len(draws) < 2
InsufficientDraws(ds) == Len(ds) = 0 \/ Len(ds) < 2

\* lines 410-440: the checks of the combination combo and the dict returned
SuggestionOf(ds, split, trend, sel, combo) ==
    [even |-> NsOf(sel.ev), odd |-> NsOf(sel.od), combo |-> combo,
     parity |-> [even_count |-> split[1], odd_count |-> split[2]],
     pattern |-> <<split[1], split[2]>>,
     valid |-> /\ valid_sum(combo, 190, 210)
               /\ limit_repetition(combo, ds[1].numbers, 9),
     rules |-> [sum_ok |-> valid_sum(combo, 190, 210),
                repeat_ok |-> limit_repetition(combo, ds[1].numbers, 9)],
     error |-> "",
     meta |-> [hot_count |-> Len(trend.hot), warm_count |-> Len(trend.warm),
               cold_count |-> Len(trend.cold), draws_analyzed |-> Len(ds)]]

\* line 402: the combination, sorted, of the selection sel
SuggestionFrom(ds, split, trend, sel) ==
    SuggestionOf(ds, split, trend, sel,
                 SortedList(NsOf(sel.ev) \o NsOf(sel.od)))

\* lines 364-400: the pool of the hot and warm numbers and the selection
SuggestionFor(ds, split, trend, freq_all) ==
    SuggestionFrom(ds, split, trend,
                   SelectByParity(CandidatePool(freq_all,
                                                Range(trend.hot \o trend.warm)),
                                  freq_all, split[1], split[2]))

build_parity_suggestion(ds, even_arg, odd_arg) ==
    IF InsufficientDraws(ds)
    THEN [even |-> <<>>, odd |-> <<>>, combo |-> <<>>,
          parity |-> [even_count |-> even_arg, odd_count |-> odd_arg],
          pattern |-> <<even_arg, odd_arg>>,
          valid |-> FALSE,
          rules |-> [sum_ok |-> FALSE, repeat_ok |-> FALSE],
          error |-> "insufficient_draws"]
    ELSE SuggestionFor(ds, ParitySplit(even_arg, odd_arg),
                       classify_trend(ds, 20), frequencies(ds))

-----------------------------------------------------------------------------
(* Date strings and parse_draw_date: src/main.py 196-217                   *)
(*                                                                         *)
(* A date string is held by its shape: "d/m/y" as [f |-> "dmy", ...],      *)
(* "yyyy-mm-dd" as [f |-> "iso", ...], "" as [f |-> "empty"] and any other *)
(* text as [f |-> "text"].  yd is the number of digits of the year.        *)

DMY(d, m, y) == [f |-> "dmy", d |-> d, m |-> m, y |-> y, yd |-> 4]
DMY2(d, m, y) == [f |-> "dmy", d |-> d, m |-> m, y |-> y, yd |-> 2]
ISO(y, m, d) == [f |-> "iso", d |-> d, m |-> m, y |-> y, yd |-> 4]
EmptyStr == [f |-> "empty"]
OtherText == [f |-> "text"]

NoDate == [k |-> "none"]
Date(y, m, d) == [k |-> "date", y |-> y, m |-> m, d |-> d]

IsLeap(y) == (y % 4 = 0 /\ y % 100 # 0) \/ y % 400 = 0

DaysInMonth(y, m) ==
    IF m = 2 THEN (IF IsLeap(y) THEN 29 ELSE 28)
    ELSE IF m \in {4, 6, 9, 11} THEN 30 ELSE 31

\* dt.date(y, M, d), which raises ValueError outside the calendar
DateOrNone(y, m, d) ==
    IF /\ 1 <= y /\ y <= 9999
       /\ 1 <= m /\ m <= 12
       /\ 1 <= d /\ d <= DaysInMonth(y, m)
    THEN Date(y, m, d) ELSE NoDate

parse_draw_date(s) ==
    IF s.f = "empty" THEN NoDate
    ELSE IF s.f = "dmy"
         THEN DateOrNone(IF s.y < 100 THEN s.y + 2000 ELSE s.y, s.m, s.d)
    ELSE IF s.f = "iso" THEN DateOrNone(s.y, s.m, s.d)
    ELSE NoDate

\* d1 < d2 of two dt.date values
DateLt(d1, d2) ==
    \/ d1.y < d2.y
    \/ (d1.y = d2.y /\ d1.m < d2.m)
    \/ (d1.y = d2.y /\ d1.m = d2.m /\ d1.d < d2.d)

-----------------------------------------------------------------------------
(* Draw records *)

Draw(contest, date, numbers, source) ==
    [k |-> "draw", contest |-> contest, date |-> date, numbers |-> numbers,
     even_count |-> histogram_even_odd(numbers)[1],
     odd_count |-> histogram_even_odd(numbers)[2],
     source |-> source]

-----------------------------------------------------------------------------
(* Raw upstream values.  A JSON value is tagged with its type: null (or an *)
(* absent field: j.get returns None for both), a number, a string of       *)
(* decimal digits (held as its digits), any other string, a date string,   *)
(* or a list.                                                              *)

JNull == [t |-> "null"]
JInt(v) == [t |-> "int", v |-> v]
JDigits(ds) == [t |-> "digits", ds |-> ds]
JText == [t |-> "text"]
JDate(s) == [t |-> "date", s |-> s]
JList(items) == [t |-> "list", items |-> items]

\* "07": the two-digit string the sources use for a drawn number
TwoDigits(v) == JDigits(<<v \div 10, v % 10>>)

\* Python truthiness, as `or` and `if` use it
Truthy(v) ==
    CASE v.t = "null" -> FALSE
      [] v.t = "int" -> v.v # 0
      [] v.t = "digits" -> Len(v.ds) > 0
      [] v.t = "text" -> TRUE
      [] v.t = "date" -> v.s.f # "empty"
      [] v.t = "list" -> Len(v.items) > 0

\* a or b
Or(a, b) == IF Truthy(a) THEN a ELSE b

RECURSIVE DigitsValue(_)
DigitsValue(ds) ==
    IF Len(ds) = 0 THEN 0
    ELSE 10 * DigitsValue(SubSeq(ds, 1, Len(ds) - 1)) + ds[Len(ds)]

\* int(str(x)): [ok |-> TRUE, v |-> value], or ok = FALSE where it raises
IntOfStr(x) ==
    CASE x.t = "int" -> [ok |-> TRUE, v |-> x.v]
      [] x.t = "digits" -> IF Len(x.ds) > 0
                           THEN [ok |-> TRUE, v |-> DigitsValue(x.ds)]
                           ELSE [ok |-> FALSE, v |-> 0]
      [] OTHER -> [ok |-> FALSE, v |-> 0]

\* str(data or "")
DateField(data) ==
    IF ~Truthy(data) THEN EmptyStr
    ELSE IF data.t = "date" THEN data.s
    ELSE OtherText

\* a JSON object with the fields the normalizer reads
JObject(numero, concurso, listaDezenas, dezenas, dataApuracao, data) ==
    [t |-> "object", numero |-> numero, concurso |-> concurso,
     listaDezenas |-> listaDezenas, dezenas |-> dezenas,
     dataApuracao |-> dataApuracao, data |-> data]

-----------------------------------------------------------------------------
(* DrawNormalizer: src/main.py 483-508 *)

\* `return None`, also from the except branch
Rejected == None

_normalize_from_any(j) ==
    IF j.t # "object" THEN Rejected
    ELSE
      LET numero0 == j.numero
          dezenas0 == j.listaDezenas
          data == Or(j.dataApuracao, j.data)
          numero == IF numero0.t = "null" THEN j.concurso ELSE numero0
          dezenas == IF numero0.t = "null" THEN Or(dezenas0, j.dezenas)
                     ELSE dezenas0
      IN IF numero.t = "null" \/ dezenas.t = "null" THEN None
         ELSE IF ~IntOfStr(numero).ok THEN Rejected
         ELSE IF dezenas.t # "list" THEN Rejected
         ELSE IF \E i \in DOMAIN dezenas.items : ~IntOfStr(dezenas.items[i]).ok
              THEN Rejected
         ELSE LET nums == [i \in DOMAIN dezenas.items |->
                              IntOfStr(dezenas.items[i]).v]
              IN IF ~valid_15_unique(nums) THEN None
                 ELSE Draw(IntOfStr(numero).v, DateField(data), nums, "caixa")

-----------------------------------------------------------------------------
(* HTML scrape: src/main.py 593-608 *)

\* _HTML_RE_NUM, \b([0-2]?\d)\b: the standalone numbers 0..29 of the page
\* from the match on.  The matched header "Concurso N (dd/mm/yyyy)" lies
\* inside the segment: its day and month are such numbers when below 30,
\* and so is the contest number; the four-digit year never is.
HeaderTokens(h) ==
    (IF h.concurso <= 29 THEN <<h.concurso>> ELSE <<>>)
    \o (IF h.date.d <= 29 THEN <<h.date.d>> ELSE <<>>)
    \o (IF h.date.m <= 29 THEN <<h.date.m>> ELSE <<>>)

RECURSIVE First15InRange(_, _)
First15InRange(raw, nums) ==
    IF Len(raw) = 0 \/ Len(nums) = 15 THEN nums
    ELSE IF 1 <= Head(raw) /\ Head(raw) <= 25
         THEN First15InRange(Tail(raw), Append(nums, Head(raw)))
         ELSE First15InRange(Tail(raw), nums)

_pick_15_numbers_near(h) ==
    LET nums == First15InRange(HeaderTokens(h) \o h.body, <<>>)
    IN IF valid_15_unique(nums) THEN [k |-> "nums", nums |-> nums] ELSE None

-----------------------------------------------------------------------------
(* SourceClient, three tiers: src/main.py 521-657                          *)
(*                                                                         *)
(* One fetch answers with resp:                                            *)
(*   [k |-> "error"]             the request raised (timeout, connection)  *)
(*   [k |-> "status", code]      a non-2xx status                          *)
(*   [k |-> "body", json]        200 with a body; json = [t |-> "invalid"] *)
(*                               when r.json() raises                      *)
(*   [k |-> "page", found, concurso, date, body]                           *)
(*                               200 with an HTML page; found tells        *)
(*                               whether _HTML_RE_CONCURSO matches         *)

\* `except Exception: pass / continue`: the attempt yields nothing
\* (OnException_propagates: the handler left out)
OnException_propagates == [k |-> "raise"]

OnException == None

WithSource(d, source) == IF d.k = "draw" THEN [d EXCEPT !.source = source] ELSE d

\* lines 521-533
_mirror_get_latest(resp) ==
    IF resp.k # "body" THEN OnException
    ELSE IF resp.json.t = "invalid" THEN OnException
    ELSE WithSource(_normalize_from_any(resp.json), "mirror")

\* lines 536-552
_mirror_get_concurso(n, resp) ==
    IF resp.k = "error" THEN OnException
    ELSE IF resp.k = "status"
         THEN (IF resp.code = 404 THEN None ELSE OnException)
    ELSE IF resp.k # "body" \/ resp.json.t # "object" THEN OnException
    ELSE LET j == resp.json
             id == IntOfStr(Or(Or(j.numero, j.concurso), JInt(0)))
         IN IF ~id.ok THEN OnException
            ELSE IF id.v # n THEN None
            ELSE WithSource(_normalize_from_any(j), "mirror")

\* lines 555-567, one host of CAIXA_HOSTS
_json_get_latest(resp) ==
    IF resp.k # "body" THEN OnException
    ELSE IF resp.json.t = "invalid" THEN OnException
    ELSE _normalize_from_any(resp.json)

\* lines 570-591, one (url, params) variant
_json_get_concurso(n, resp) ==
    IF resp.k = "error" THEN OnException
    ELSE IF resp.k = "status"
         THEN (IF resp.code = 404 THEN None ELSE OnException)
    ELSE IF resp.k # "body" \/ resp.json.t # "object" THEN OnException
    ELSE LET j == resp.json
             id == IntOfStr(Or(j.numero, JInt(0)))
         IN IF ~id.ok THEN OnException
            ELSE IF id.v # n THEN None
            ELSE _normalize_from_any(j)

\* lines 611-631, the one URL of CAIXA_HTML_URLS[:1]
_html_get_latest(resp) ==
    IF resp.k # "page" THEN OnException
    ELSE IF ~resp.found THEN None
    ELSE LET picked == _pick_15_numbers_near(resp)
         IN IF picked.k = "none" THEN None
            ELSE Draw(resp.concurso, resp.date, picked.nums, "html")

\* lines 634-657, one URL template
_html_get_concurso(n, resp) ==
    IF resp.k # "page" THEN OnException
    ELSE IF ~resp.found THEN None
    ELSE IF resp.concurso # n THEN None
    ELSE LET picked == _pick_15_numbers_near(resp)
         IN IF picked.k = "none" THEN None
            ELSE Draw(resp.concurso, resp.date, picked.nums, "html")

-----------------------------------------------------------------------------
(* DrawCache: src/main.py 114-124, 160-171 *)

\* CAIXA_TTL_SEC, read from the environment (120 when unset); the model
\* runs with a TTL of one clock unit.
CAIXA_TTL_SEC == 1

KeyLatest == <<"latest">>
KeyContest(n) == <<"c", n>>

\* a variant that treats the entry as stale one unit early
_cache_get_strict(store, key, ttl, now) ==
    IF key \notin DOMAIN store THEN None
    ELSE IF now - store[key].ts < ttl THEN store[key].payload
    ELSE None

_cache_get(store, key, ttl, now) ==
    IF key \notin DOMAIN store THEN None
    ELSE IF now - store[key].ts <= ttl THEN store[key].payload
    ELSE None

\* a variant that changes the payload of an entry and keeps its timestamp
_cache_put_keeps_ts(store, key, payload, now) ==
    [x \in DOMAIN store \cup {key} |->
        IF x = key
        THEN [ts |-> IF key \in DOMAIN store THEN store[key].ts ELSE now,
              payload |-> payload]
        ELSE store[x]]

_cache_put(store, key, payload, now) ==
    [x \in DOMAIN store \cup {key} |->
        IF x = key THEN [ts |-> now, payload |-> payload] ELSE store[x]]

-----------------------------------------------------------------------------
(* Aggregate cache: src/main.py 115, 124, 174-189.  A key is held as the   *)
(* pair of the operation name and its parameters; json.dumps with          *)
(* sort_keys gives equal texts exactly for equal parameters.               *)

\* AGG_TTL_SEC, read from the environment (120 when unset); the model runs
\* with a TTL of one clock unit.
AGG_TTL_SEC == 1

_agg_key(kind, params) == <<kind, params>>

_agg_get(store, kind, params, now) ==
    _cache_get(store, _agg_key(kind, params), AGG_TTL_SEC, now)

\* _with_ts adds the field _ts to a copy of the payload
_agg_put(store, payload, kind, params, now) ==
    _cache_put(store, _agg_key(kind, params),
               [k |-> "cached", body |-> payload, _ts |-> now], now)

-----------------------------------------------------------------------------
(* DrawResolver: src/main.py 664-721 *)

Attempt(tier, variant) == [tier |-> tier, variant |-> variant]

\* the fetches of _get_latest in the order the code makes them
LatestAttempts(prefer) ==
    (IF prefer THEN <<Attempt("mirror", 1)>> ELSE <<>>)
    \o <<Attempt("json", 1), Attempt("json", 2),
         Attempt("mirror", 1), Attempt("html", 1)>>

\* a variant that goes through the four official JSON requests twice
ConcursoAttempts_second_round(prefer) ==
    (IF prefer THEN <<Attempt("mirror", 1)>> ELSE <<>>)
    \o <<Attempt("json", 1), Attempt("json", 2), Attempt("json", 3),
         Attempt("json", 4), Attempt("json", 1), Attempt("json", 2),
         Attempt("json", 3), Attempt("json", 4), Attempt("mirror", 1),
         Attempt("html", 1), Attempt("html", 2)>>

\* the fetches of _get_concurso(n) in the order the code makes them
ConcursoAttempts(prefer) ==
    (IF prefer THEN <<Attempt("mirror", 1)>> ELSE <<>>)
    \o <<Attempt("json", 1), Attempt("json", 2), Attempt("json", 3),
         Attempt("json", 4), Attempt("mirror", 1),
         Attempt("html", 1), Attempt("html", 2)>>

\* a variant that asks the mirror before the official JSON whatever the flag
TierOrder_mirror_first(key, prefer) ==
    IF key = KeyLatest THEN LatestAttempts(TRUE) ELSE ConcursoAttempts(TRUE)

TierOrder(key, prefer) ==
    IF key = KeyLatest THEN LatestAttempts(prefer) ELSE ConcursoAttempts(prefer)

\* what one fetch of the attempt yields: a Draw, or None
TierResult(key, a, resp) ==
    IF key = KeyLatest
    THEN CASE a.tier = "mirror" -> _mirror_get_latest(resp)
           [] a.tier = "json" -> _json_get_latest(resp)
           [] a.tier = "html" -> _html_get_latest(resp)
    ELSE CASE a.tier = "mirror" -> _mirror_get_concurso(key[2], resp)
           [] a.tier = "json" -> _json_get_concurso(key[2], resp)
           [] a.tier = "html" -> _html_get_concurso(key[2], resp)

\* a variant that stores whatever the tier returned
CacheResult_always(store, key, r, now) == _cache_put(store, key, r, now)

\* lines 671-689, 701-719: `if m: _cache_put(_caixa_cache, key, m)`, the
\* same for every tier; a tier that returned None stores nothing
CacheResult(store, key, r, now) ==
    IF r.k = "draw" THEN _cache_put(store, key, r, now) ELSE store

\* line 691: the zero-contest placeholder
Placeholder ==
    [k |-> "draw", contest |-> 0, date |-> EmptyStr, numbers |-> <<>>,
     source |-> "none"]

\* a variant that hands the placeholder to per-contest callers too
Exhausted_placeholder(key) == Placeholder

\* lines 691 and 721: what the resolver returns when every tier failed
Exhausted(key) == IF key = KeyLatest THEN Placeholder ELSE None

-----------------------------------------------------------------------------
(* Requests.  A request is one call of resolve_latest (_get_latest),       *)
(* resolve_contest (_get_concurso), collect_last_n, collect_by_date,       *)
(* simulate, lotofacil, stats or backtest_latest.  It runs without         *)
(* interruption from one await to the next: pc = "fetch" is a request      *)
(* suspended in the HTTP call of attempt att of the resolver call for key; *)
(* pc = "sleep" is one suspended in asyncio.sleep.  log, hit, seen, t0,    *)
(* wrote and got record what the current resolver call did; calls lists    *)
(* the contests the request has called resolve_contest for; r is the value *)
(* a resolver call hands back to its caller; target is latest_draw of      *)
(* backtest_latest; put is the payload the request handed to _agg_put;     *)
(* prev is the last resolve_contest call of the same caller that fetched   *)
(* and cached a Draw or, for the endpoints, its last request that computed *)
(* a payload.                                                              *)

NoArgs == [n |-> 0, limit |-> 0, start |-> NoDate, end |-> NoDate,
           max_fetch |-> 0, contest |-> 0, hi |-> 0, lo |-> 0,
           force |-> FALSE]

IdleProc ==
    [op |-> "idle", pc |-> "idle", args |-> NoArgs,
     key |-> KeyLatest, att |-> 0, log |-> <<>>, hit |-> FALSE,
     seen |-> None, t0 |-> 0, wrote |-> None, got |-> None,
     stage |-> "", n |-> 0, acc |-> <<>>, cnt |-> 0, calls |-> <<>>,
     ret |-> None, r |-> None, prev |-> None, put |-> None,
     target |-> None]

ListOf(items) == [k |-> "list", items |-> items]
Raised == [k |-> "exception"]

\* simulate, line 1584 and line 1604
SIM_COLLECT_LIMIT == 500
SIM_MIN_PAST == 20

\* backtest_latest: lines 1692 and 1694 (the bounds of its walk), line 1711
BACKTEST_MAX_DRAWS == 50
BACKTEST_MAX_ATTEMPTS == 150
BACKTEST_MIN_DRAWS == 20

\* lines 1586-1591: next((d for d in all_draws if d["contest"] == contest), None)
RECURSIVE FindContest(_, _)
FindContest(ds, contest) ==
    IF Len(ds) = 0 THEN None
    ELSE IF Head(ds).contest = contest THEN Head(ds)
    ELSE FindContest(Tail(ds), contest)

\* a variant that compares with <= instead of <
RECURSIVE PastDraws_inclusive(_, _)
PastDraws_inclusive(ds, target_date) ==
    IF Len(ds) = 0 THEN [k |-> "list", items |-> <<>>]
    ELSE LET dd == parse_draw_date(Head(ds).date)
         IN IF dd.k = "none" THEN PastDraws_inclusive(Tail(ds), target_date)
            ELSE IF target_date.k = "none" THEN Raised
            ELSE LET rest == PastDraws_inclusive(Tail(ds), target_date)
                 IN IF rest.k = "exception" THEN Raised
                    ELSE IF ~DateLt(target_date, dd)
                         THEN ListOf(<<Head(ds)>> \o rest.items)
                         ELSE rest

\* lines 1599-1602: the comprehension over all_draws.  Comparing a date
\* with None raises TypeError, which nothing in simulate catches.
RECURSIVE PastDraws(_, _)
PastDraws(ds, target_date) ==
    IF Len(ds) = 0 THEN [k |-> "list", items |-> <<>>]
    ELSE LET dd == parse_draw_date(Head(ds).date)
         IN IF dd.k = "none" THEN PastDraws(Tail(ds), target_date)
            ELSE IF target_date.k = "none" THEN Raised
            ELSE LET rest == PastDraws(Tail(ds), target_date)
                 IN IF rest.k = "exception" THEN Raised
                    ELSE IF DateLt(dd, target_date)
                         THEN ListOf(<<Head(ds)>> \o rest.items)
                         ELSE rest

\* a variant that reports the whole combo as hits
Hits_whole_combo(combo, target_numbers) == SortedSeq(Range(combo))

\* line 1624: hits = sorted(set(combo) & set(target_numbers))
Hits(combo, target_numbers) ==
    SortedSeq(Range(combo) \cap Range(target_numbers))

\* lines 1586-1609 of simulate, from the return of collect_last_n to the
\* call of the builder: the answer given without a suggestion, the
\* exception, or the list of past draws the builder is given
SimulateHistory(all_draws, contest) ==
    LET target == FindContest(all_draws, contest)
    IN IF target.k = "none" THEN [k |-> "error", error |-> "not_found"]
       ELSE
         LET target_date == parse_draw_date(target.date)
             past == PastDraws(all_draws, target_date)
         IN IF past.k = "exception" THEN Raised
            ELSE IF Len(past.items) < SIM_MIN_PAST
                 THEN [k |-> "error", error |-> "insufficient_history"]
            ELSE past

\* lines 1611-1640 of simulate.  The fields of the result are those of the
\* returned dict (k = "result" stands for "ok": True; the wall-clock text
\* updated_at is left out); past_draws and sugg are not part of it: they
\* record what the builder was given and what it returned.
SimulateResult(all_draws, contest, past_draws, sugg) ==
    LET target == FindContest(all_draws, contest)
        combo == sugg.combo
        hits == Hits(combo, target.numbers)
    IN [k |-> "result", contest |-> contest,
        date |-> parse_draw_date(target.date),
        suggested_at_time |-> combo,
        official_result |-> target.numbers,
        hits |-> hits, hits_count |-> Len(hits),
        pattern |-> sugg.pattern,
        method |-> "historical_simulation",
        past_draws |-> past_draws, sugg |-> sugg]

\* lines 884-897 of lotofacil, from the return of collect_last_n on: the
\* payload as it is stored, and as it is returned (summary, a function of
\* results, and the constant source_url are left out).  The age is None or
\* an int, held as [k |-> "int", v |-> ..].
LotofacilPayload(draws_, limit, age) ==
    [k |-> "payload", ok |-> TRUE, count |-> Len(draws_), limit |-> limit,
     results |-> draws_, method |-> "mixed", cache_age_seconds |-> age]

\* lines 917-943 of stats, from the return of collect_last_n on (the
\* wall-clock text updated_at and the constant source_url are left out)
StatsPayload(draws_, limit, hi, lo, sugg) ==
    [k |-> "payload", ok |-> TRUE, considered_games |-> Len(draws_),
     limit |-> limit, hi |-> hi, lo |-> lo,
     frequencies |-> frequencies(draws_), suggestion |-> sugg,
     parity_pattern_example |-> sugg.pattern, method |-> "mixed",
     cache_age_seconds |-> None]

\* lines 1716-1763 of backtest_latest: latest_contest is the contest of the
\* Draw _get_latest returned, latest_draw the Draw _get_concurso returned
\* for it (the wall-clock text updated_at is left out; previous_draws and
\* sugg are not part of the returned dict)
BacktestResult(latest_contest, latest_draw, previous_draws, sugg) ==
    IF Len(sugg.combo) # 15
    THEN [k |-> "error", error |-> "incomplete_suggestion"]
    ELSE LET hits == Hits(sugg.combo, latest_draw.numbers)
         IN [k |-> "result", contest |-> latest_contest,
             contest_date |-> parse_draw_date(latest_draw.date),
             suggested |-> sugg.combo, official |-> latest_draw.numbers,
             hits |-> hits, hits_count |-> Len(hits),
             pattern |-> sugg.pattern, parity |-> sugg.parity,
             valid |-> sugg.valid, rules |-> sugg.rules,
             method |-> "backtest_real",
             historical_draws_used |-> Len(previous_draws),
             oldest_draw_used |->
                 previous_draws[Len(previous_draws)].contest,
             previous_draws |-> previous_draws, sugg |-> sugg]

\* what a request does once its collection is over: ret is what it
\* returns, put what it hands to _agg_put before returning (None when it
\* stores nothing)
Answer(p) ==
    LET all_draws == p.r.items
        given == IF p.op = "simulate"
                 THEN SimulateHistory(all_draws, p.args.contest)
                 ELSE IF p.op = "backtest"
                         /\ Len(all_draws) < BACKTEST_MIN_DRAWS
                 THEN [k |-> "error", error |-> "insufficient_history"]
                 ELSE ListOf(all_draws)
    IN IF given.k # "list" THEN [ret |-> given, put |-> None]
       ELSE IF p.op = "lotofacil"
       THEN [ret |-> LotofacilPayload(all_draws, p.args.limit,
                                     [k |-> "int", v |-> 0]),
             put |-> LotofacilPayload(all_draws, p.args.limit, None)]
       ELSE
         LET sugg == build_parity_suggestion(given.items, 8, 7)
         IN IF p.op = "simulate"
            THEN [ret |-> SimulateResult(all_draws, p.args.contest,
                                         given.items, sugg),
                  put |-> None]
            ELSE IF p.op = "backtest"
            THEN [ret |-> BacktestResult(Head(p.calls), p.target, all_draws,
                                         sugg),
                  put |-> None]
            ELSE [ret |-> StatsPayload(all_draws, p.args.limit, p.args.hi,
                                       p.args.lo, sugg),
                  put |-> None]

\* the collector has its list: collect_last_n returns it, simulate goes on
\* with it as all_draws, lotofacil and stats with it as draws
FinishLastN(p, items) ==
    IF p.op \in {"simulate", "lotofacil", "stats"}
    THEN [p EXCEPT !.pc = "tail", !.r = ListOf(items)]
    ELSE [p EXCEPT !.pc = "done", !.ret = ListOf(items)]

\* lines 825-829
FinishByDate(p) ==
    [p EXCEPT !.pc = "done", !.ret = ListOf(SortByContestDesc(p.acc))]

\* a variant that starts from contest 1 when no latest contest is known
LatestContest_at_least_one(latest) ==
    IF latest.contest <= 0 THEN 1 ELSE latest.contest

\* int(latest.get("contest") or 0)
LatestContest(latest) == latest.contest

\* a variant without the `if end and dd > end: continue` test
ClassifyByDate_open_end(d, start, end, results) ==
    LET dd == parse_draw_date(d.date)
    IN IF dd.k = "none" THEN "skip"
       ELSE IF start.k # "none" /\ DateLt(dd, start)
            THEN (IF Len(results) > 0 THEN "stop" ELSE "skip")
       ELSE "take"

\* a variant that stops at a draw dated start itself
ClassifyByDate_stops_at_start(d, start, end, results) ==
    LET dd == parse_draw_date(d.date)
    IN IF dd.k = "none" THEN "skip"
       ELSE IF start.k # "none" /\ ~DateLt(start, dd)
            THEN (IF Len(results) > 0 THEN "stop" ELSE "skip")
       ELSE IF end.k # "none" /\ DateLt(end, dd) THEN "skip"
       ELSE "take"

\* a variant that stops at a draw earlier than start whatever it holds
ClassifyByDate_stops_when_empty(d, start, end, results) ==
    LET dd == parse_draw_date(d.date)
    IN IF dd.k = "none" THEN "skip"
       ELSE IF start.k # "none" /\ DateLt(dd, start) THEN "stop"
       ELSE IF end.k # "none" /\ DateLt(end, dd) THEN "skip"
       ELSE "take"

\* lines 802-819: what collect_by_date does with a resolved draw d:
\* "skip", "stop" or "take"
ClassifyByDate(d, start, end, results) ==
    LET dd == parse_draw_date(d.date)
    IN IF dd.k = "none" THEN "skip"
       ELSE IF start.k # "none" /\ DateLt(dd, start)
            THEN (IF Len(results) > 0 THEN "stop" ELSE "skip")
       ELSE IF end.k # "none" /\ DateLt(end, dd) THEN "skip"
       ELSE "take"

\* the request is about to call the resolver for key
Call(p, key) == [p EXCEPT !.pc = "call", !.key = key]

\* lines 664-668, 694-698: the resolver is entered; a fresh cache entry is
\* returned at once, otherwise the request suspends in its first fetch
CallResolve(store, now, p) ==
    LET cached == _cache_get(store, p.key, CAIXA_TTL_SEC, now)
        q == [p EXCEPT !.log = <<>>,
                       !.seen = IF p.key \in DOMAIN store THEN store[p.key] ELSE None,
                       !.t0 = now, !.wrote = None, !.got = None,
                       !.calls = IF p.key = KeyLatest THEN @ ELSE Append(@, p.key[2])]
    IN IF cached.k # "none"
       THEN [q EXCEPT !.hit = TRUE, !.att = 0, !.pc = "ret", !.r = cached]
       ELSE [q EXCEPT !.hit = FALSE, !.att = 1, !.pc = "fetch"]

\* a variant whose limit counts the contests walked, failures included
LastNLoop_counts_failures(p) ==
    IF p.n >= 1 /\ p.cnt < p.args.limit
    THEN Call([p EXCEPT !.cnt = @ + 1], KeyContest(p.n))
    ELSE FinishLastN(p, Slice(p.acc, p.args.limit))

\* lines 742-764: the loop of collect_last_n, at its test
LastNLoop(p) ==
    IF p.n >= 1 /\ Len(p.acc) < p.args.limit
    THEN Call([p EXCEPT !.cnt = @ + 1], KeyContest(p.n))
    ELSE FinishLastN(p, Slice(p.acc, p.args.limit))

\* a variant whose budget counts the draws collected, not the calls made
ByDateLoop_counts_results(p) ==
    IF p.n >= 1 /\ Len(p.acc) < p.args.max_fetch
    THEN Call([p EXCEPT !.cnt = @ + 1], KeyContest(p.n))
    ELSE FinishByDate(p)

\* lines 789-829: the loop of collect_by_date, at its test
ByDateLoop(p) ==
    IF p.n >= 1 /\ p.cnt < p.args.max_fetch
    THEN Call([p EXCEPT !.cnt = @ + 1], KeyContest(p.n))
    ELSE FinishByDate(p)

\* a variant without the bound of 50 draws
BacktestLoop_no_draw_cap(p) ==
    IF p.n >= 1 /\ BACKTEST_MAX_ATTEMPTS - p.cnt > 0
    THEN Call([p EXCEPT !.cnt = @ + 1], KeyContest(p.n))
    ELSE [p EXCEPT !.pc = "tail", !.r = ListOf(p.acc)]

\* lines 1694-1706: the loop of backtest_latest, at its test; p.cnt
\* attempts have been made, max_attempts is BACKTEST_MAX_ATTEMPTS - p.cnt
BacktestLoop(p) ==
    IF /\ p.n >= 1 /\ Len(p.acc) < BACKTEST_MAX_DRAWS
       /\ BACKTEST_MAX_ATTEMPTS - p.cnt > 0
    THEN Call([p EXCEPT !.cnt = @ + 1], KeyContest(p.n))
    ELSE [p EXCEPT !.pc = "tail", !.r = ListOf(p.acc)]

\* the resolver call of request p returned p.r: the caller goes on to its
\* loop test, to its sleep or to its return
Resume(p) ==
    LET r == p.r
        q0 == [p EXCEPT !.r = None]
    IN CASE p.op \in {"latest", "contest"} ->
            [q0 EXCEPT !.pc = "done", !.ret = r]
      [] p.op \in {"last_n", "simulate", "lotofacil", "stats"} ->
            IF r.k = "raise" THEN FinishLastN(q0, <<>>)
            ELSE IF p.stage = "latest"
            THEN IF LatestContest(r) <= 0 THEN FinishLastN(q0, <<>>)
                 ELSE [q0 EXCEPT !.stage = "walk", !.n = LatestContest(r),
                                 !.acc = <<>>, !.cnt = 0, !.pc = "loop"]
            ELSE LET q == [q0 EXCEPT !.acc = IF r.k = "draw" THEN Append(@, r) ELSE @,
                                     !.n = @ - 1]
                 IN IF q.cnt % 20 = 0 THEN [q EXCEPT !.pc = "sleep"]
                    ELSE [q EXCEPT !.pc = "loop"]
      [] p.op = "by_date" ->
            IF r.k = "raise" THEN [q0 EXCEPT !.pc = "done", !.ret = ListOf(<<>>)]
            ELSE IF p.stage = "latest"
            THEN IF LatestContest(r) <= 0
                 THEN [q0 EXCEPT !.pc = "done", !.ret = ListOf(<<>>)]
                 ELSE [q0 EXCEPT !.stage = "walk", !.n = LatestContest(r),
                                 !.acc = <<>>, !.cnt = 0, !.pc = "loop"]
            ELSE LET q == [q0 EXCEPT !.n = @ - 1, !.pc = "loop"]
                 IN IF r.k # "draw" THEN q
                    ELSE LET what == ClassifyByDate(r, p.args.start, p.args.end, p.acc)
                         IN IF what = "stop" THEN FinishByDate(q)
                            ELSE IF what = "skip" THEN q
                            ELSE [q EXCEPT !.acc = Append(@, r)]
      [] p.op = "backtest" ->
            \* lines 1652-1706; the handler catches every exception
            IF r.k = "raise"
            THEN [q0 EXCEPT !.pc = "done",
                            !.ret = [k |-> "error", error |-> "internal"]]
            ELSE IF p.stage = "latest"
            THEN IF LatestContest(r) <= 1
                 THEN [q0 EXCEPT !.pc = "done",
                          !.ret = [k |-> "error", error |-> "no_contest"]]
                 ELSE Call([q0 EXCEPT !.stage = "target"],
                           KeyContest(LatestContest(r)))
            ELSE IF p.stage = "target"
            THEN IF r.k # "draw"
                 THEN [q0 EXCEPT !.pc = "done",
                          !.ret = [k |-> "error", error |-> "no_latest_draw"]]
                 ELSE [q0 EXCEPT !.stage = "walk", !.target = r,
                                 !.n = p.key[2] - 1, !.acc = <<>>, !.cnt = 0,
                                 !.pc = "loop"]
            ELSE LET q == [q0 EXCEPT !.acc = IF r.k = "draw" THEN Append(@, r) ELSE @,
                                     !.n = @ - 1]
                 IN IF (BACKTEST_MAX_ATTEMPTS - q.cnt) % 20 = 0
                    THEN [q EXCEPT !.pc = "sleep"]
                    ELSE [q EXCEPT !.pc = "loop"]

\* one move of a running request
Step(store, now, p) ==
    CASE p.pc = "call" -> CallResolve(store, now, p)
      [] p.pc = "ret" -> Resume(p)
      [] p.pc = "loop" -> IF p.op = "by_date" THEN ByDateLoop(p)
                          ELSE IF p.op = "backtest" THEN BacktestLoop(p)
                          ELSE LastNLoop(p)
      [] p.pc = "tail" ->
            LET a == Answer(p)
            IN [p EXCEPT !.pc = "done", !.r = None, !.ret = a.ret,
                         !.put = a.put]

\* the request runs on, without interruption, to its next await or return
RECURSIVE RunToAwait(_, _, _)
RunToAwait(store, now, p) ==
    IF p.pc \in {"idle", "fetch", "sleep", "done"} THEN p
    ELSE RunToAwait(store, now, Step(store, now, p))

-----------------------------------------------------------------------------
(* The upstream sources (the environment of the c.get calls, lines 524,    *)
(* 539, 559, 579, 615, 639).  upstream.dates[m] is the date of contest m,  *)
(* its numbers are NumsOf(m).  With upstream.mode = "any" a fetch may fail *)
(* in every way or answer with any payload of the library below; with      *)
(* mode = "steady" every source answers the same way throughout: the       *)
(* requests for a contest of upstream.down fail on every tier, those for   *)
(* the other contests and for the latest draw are served by the tier       *)
(* upstream.serving.                                                       *)

NumsLow == <<1, 2, 3, 4, 5, 6, 7, 8, 9, 10, 11, 12, 13, 14, 15>>
NumsHigh == <<25, 24, 23, 22, 21, 20, 19, 18, 17, 16, 15, 14, 13, 12, 11>>
NumsEvenHeavy == <<1, 2, 3, 4, 5, 6, 8, 10, 12, 14, 16, 18, 20, 22, 24>>
NumsOddHeavy == <<1, 2, 3, 4, 5, 7, 9, 11, 13, 15, 17, 19, 21, 23, 25>>

NumsLib == <<NumsLow, NumsHigh, NumsEvenHeavy, NumsOddHeavy>>

NumsOf(m) == NumsLib[(m % 4) + 1]

Truth(u, m) ==
    [contest |-> m,
     date |-> IF m \in DOMAIN u.dates THEN u.dates[m] ELSE EmptyStr,
     numbers |-> NumsOf(m)]

Tokens(numbers) == JList([i \in DOMAIN numbers |-> TwoDigits(numbers[i])])

\* the official JSON: numero, listaDezenas, dataApuracao
CaixaStyle(rec) ==
    JObject(JInt(rec.contest), JNull, Tokens(rec.numbers), JNull,
            JDate(rec.date), JNull)

\* the mirror's JSON: concurso, dezenas, data
MirrorStyle(rec) ==
    JObject(JNull, JInt(rec.contest), JNull, Tokens(rec.numbers),
            JNull, JDate(rec.date))

\* both aliases present, numero 0
AliasClash(rec) ==
    JObject(JInt(0), JInt(rec.contest), Tokens(rec.numbers), JNull,
            JDate(rec.date), JNull)

\* payloads the normalizer has to reject
BadPayloads(rec) ==
    {JObject(JInt(rec.contest), JNull, JNull, Tokens(rec.numbers),
             JDate(rec.date), JNull),
     JObject(JInt(rec.contest), JNull,
             Tokens(SubSeq(rec.numbers, 1, 14)), JNull, JDate(rec.date), JNull),
     JObject(JInt(rec.contest), JNull,
             Tokens([rec.numbers EXCEPT ![15] = rec.numbers[1]]), JNull,
             JDate(rec.date), JNull),
     JObject(JInt(rec.contest), JNull,
             Tokens([rec.numbers EXCEPT ![15] = 26]), JNull,
             JDate(rec.date), JNull),
     JObject(JInt(rec.contest), JNull,
             JList([i \in 1..15 |-> IF i = 15 THEN JText
                                    ELSE TwoDigits(rec.numbers[i])]), JNull,
             JDate(rec.date), JNull),
     JObject(JText, JNull, Tokens(rec.numbers), JNull, JDate(rec.date), JNull)}

\* the page of the official site: "Concurso N (dd/mm/yyyy)" and the numbers
HtmlDate(s) ==
    LET dd == parse_draw_date(s)
    IN IF dd.k = "none" THEN DMY(31, 2, 2024) ELSE DMY(dd.d, dd.m, dd.y)

Page(rec) ==
    [k |-> "page", found |-> TRUE, concurso |-> rec.contest,
     date |-> HtmlDate(rec.date), body |-> rec.numbers]

PageNoMatch ==
    [k |-> "page", found |-> FALSE, concurso |-> 0,
     date |-> DMY(1, 1, 2024), body |-> <<>>]

Failures ==
    {[k |-> "error"], [k |-> "status", code |-> 404],
     [k |-> "status", code |-> 500]}

Body(j) == [k |-> "body", json |-> j]

\* the contests whose record a fetch for key may be answered with
Candidates(u, key) ==
    IF key = KeyLatest THEN {0, u.L}
    ELSE {key[2], key[2] + 1}

Responses(u, key, a) ==
    IF u.mode = "steady"
    THEN LET m == IF key = KeyLatest THEN u.L ELSE key[2]
         IN IF (key # KeyLatest /\ m \in u.down) \/ a.tier # u.serving
            THEN {[k |-> "error"]}
            ELSE IF a.tier = "json" THEN {Body(CaixaStyle(Truth(u, m)))}
            ELSE IF a.tier = "mirror" THEN {Body(MirrorStyle(Truth(u, m)))}
            ELSE {Page(Truth(u, m))}
    ELSE IF a.tier = "html"
    THEN Failures \cup {PageNoMatch}
         \cup {Page(Truth(u, m)) : m \in Candidates(u, key)}
    ELSE Failures
         \cup {Body([t |-> "invalid"]), Body(JList(<<>>))}
         \cup {Body(CaixaStyle(Truth(u, m))) : m \in Candidates(u, key)}
         \cup {Body(MirrorStyle(Truth(u, m))) : m \in Candidates(u, key)}
         \cup (IF key = KeyLatest THEN {}
               ELSE {Body(AliasClash(Truth(u, key[2])))}
                    \cup {Body(j) : j \in BadPayloads(Truth(u, key[2]))})

-----------------------------------------------------------------------------
(* Actions *)

Procs == {"fg", "bg"}

\* dates the upstream of Spec gives its contests, and the windows asked for
DateStrings == {DMY(5, 2, 2024), ISO(2024, 2, 9), EmptyStr}
WindowDates == {NoDate, Date(2024, 2, 5), Date(2024, 2, 7)}

\* the state once the module is loaded, for an upstream of the set ups
Loaded(prefer, ups) ==
    /\ prefer_mirror \in prefer
    /\ upstream \in ups
    /\ time = 0
    /\ _caixa_cache = <<>>
    /\ _agg_cache = <<>>
    /\ procs = [p \in Procs |-> IdleProc]
    /\ ncalls = 0
    /\ draws = <<>>
    /\ out = [op |-> "none"]

AnyUpstream(ds) ==
    [mode |-> "any", L |-> Len(ds), dates |-> ds, down |-> {}, serving |-> "json"]

Init ==
    Loaded(BOOLEAN, {AnyUpstream([m \in 1..MaxContest |->
                           IF m % 2 = 1 THEN DMY(5, 2, 2024) ELSE ISO(2024, 2, 9)])})

\* the keyword arguments an endpoint hands to _agg_get and _agg_put
Params(op, args) ==
    IF op = "lotofacil" THEN [limit |-> args.limit]
    ELSE [limit |-> args.limit, hi |-> args.hi, lo |-> args.lo]

\* a request has run to its next await, or to its return; on its way to
\* the return it handed q.put, if any, to _agg_put (line 895)
AggAfter(store, q, now) ==
    IF q.pc = "done" /\ q.put # None
    THEN _agg_put(store, q.put, q.op, Params(q.op, q.args), now)
    ELSE store

Begin(p, op, args, key) ==
    /\ procs[p].pc = "idle"
    /\ ncalls' = ncalls + 1
    /\ procs' = [procs EXCEPT ![p] =
                    RunToAwait(_caixa_cache, time,
                               Call([IdleProc EXCEPT !.op = op, !.args = args,
                                                     !.stage = "latest",
                                                     !.prev = procs[p].prev], key))]
    /\ UNCHANGED <<prefer_mirror, upstream, time, _caixa_cache, _agg_cache,
                   draws, out>>

\* resolve_latest()
StartLatest ==
    /\ ncalls < MaxCalls
    /\ Begin("fg", "latest", NoArgs, KeyLatest)

\* resolve_contest(n)
StartContest ==
    /\ ncalls < MaxCalls
    /\ \E n \in 1..MaxContest :
         Begin("fg", "contest", [NoArgs EXCEPT !.n = n], KeyContest(n))

\* resolve_contest of the newest contest, by either of two callers
RaceContest ==
    /\ ncalls < MaxCalls + 1
    /\ \E p \in Procs :
         Begin(p, "contest", [NoArgs EXCEPT !.n = MaxContest],
               KeyContest(MaxContest))

\* collect_last_n(limit)
StartLastN ==
    /\ ncalls = 0
    /\ \E limit \in {1, MaxLatest} :
         Begin("fg", "last_n", [NoArgs EXCEPT !.limit = limit], KeyLatest)

\* collect_by_date(start, end, max_fetch)
StartByDate ==
    /\ ncalls = 0
    /\ \E start \in WindowDates, end \in WindowDates,
            max_fetch \in {1, upstream.L + 1} :
         Begin("fg", "by_date",
               [NoArgs EXCEPT !.start = start, !.end = end,
                              !.max_fetch = max_fetch], KeyLatest)

\* simulate(contest)
StartSimulate ==
    /\ ncalls = 0
    /\ \E contest \in 1..(upstream.L + 1) :
         Begin("fg", "simulate",
               [NoArgs EXCEPT !.contest = contest, !.limit = SIM_COLLECT_LIMIT],
               KeyLatest)

\* lines 905-908 of stats
StatsSplit(hi_arg, lo_arg) ==
    LET hi == Max(0, Min(15, hi_arg))
        lo == Max(0, Min(15 - hi, lo_arg))
    IN IF hi + lo # 15 THEN <<12, 3>> ELSE <<hi, lo>>

\* lines 877-884, 910-917: an endpoint is entered.  Without force a fresh
\* entry of the aggregate cache is answered at once, as a copy without _ts
\* and with its age (`if ts`: None for a timestamp of 0); otherwise the
\* request goes on to collect_last_n.
\* stage = "cache" marks a request answered from the aggregate cache.
BeginAggregate(op, args) ==
    LET cache == IF args.force THEN None
                 ELSE _agg_get(_agg_cache, op, Params(op, args), time)
        q0 == [IdleProc EXCEPT !.op = op, !.args = args, !.stage = "latest",
                               !.prev = procs["fg"].prev]
    IN /\ procs["fg"].pc = "idle"
       /\ ncalls' = ncalls + 1
       /\ procs' = [procs EXCEPT !["fg"] =
             IF cache.k # "none"
             THEN [q0 EXCEPT !.stage = "cache", !.pc = "done",
                      !.ret = [cache.body EXCEPT !.cache_age_seconds =
                                  IF cache._ts = 0 THEN None
                                  ELSE [k |-> "int", v |-> time - cache._ts]]]
             ELSE RunToAwait(_caixa_cache, time, Call(q0, KeyLatest))]
       /\ _agg_cache' = AggAfter(_agg_cache, procs'["fg"], time)
       /\ UNCHANGED <<prefer_mirror, upstream, time, _caixa_cache, draws, out>>

\* GET /lotofacil?limit=..&force=..
StartLotofacil ==
    /\ ncalls < MaxCalls
    /\ \E limit \in {1, MaxLatest}, force \in BOOLEAN :
         BeginAggregate("lotofacil",
                        [NoArgs EXCEPT !.limit = limit, !.force = force])

\* GET /stats?limit=..&hi=..&lo=..&force=..
StartStats ==
    /\ ncalls < MaxCalls
    /\ \E limit \in {1, MaxLatest}, hl \in {<<15, 0>>, <<9, 9>>},
            force \in BOOLEAN :
         LET split == StatsSplit(hl[1], hl[2])
         IN BeginAggregate("stats",
                           [NoArgs EXCEPT !.limit = limit, !.hi = split[1],
                                          !.lo = split[2], !.force = force])

\* one HTTP call of a suspended resolver call answers: a Draw is cached and
\* returned, anything else leads to the next attempt or, after the last one,
\* to the resolver giving up
Fetch ==
    \E p \in Procs :
      /\ procs[p].pc = "fetch"
      /\ LET q == procs[p]
             order == TierOrder(q.key, prefer_mirror)
             a == order[q.att]
         IN \E resp \in Responses(upstream, q.key, a) :
              LET r == TierResult(q.key, a, resp)
                  logged == [q EXCEPT !.log = Append(@, [tier |-> a.tier,
                                                         ok |-> r.k = "draw"])]
                  store == CacheResult(_caixa_cache, q.key, r, time)
                  next == IF r.k = "draw"
                          THEN [logged EXCEPT !.wrote = store[q.key], !.got = r,
                                              !.pc = "ret", !.r = r]
                          ELSE IF r.k = "raise"
                          THEN [logged EXCEPT !.pc = "ret", !.r = r]
                          ELSE IF q.att < Len(order)
                          THEN [logged EXCEPT !.att = @ + 1]
                          ELSE [logged EXCEPT !.pc = "ret", !.r = Exhausted(q.key)]
              IN /\ _caixa_cache' = store
                 /\ procs' = [procs EXCEPT ![p] = RunToAwait(store, time, next)]
                 /\ _agg_cache' = AggAfter(_agg_cache, procs'[p], time)
      /\ UNCHANGED <<prefer_mirror, upstream, time, ncalls, draws, out>>

\* asyncio.sleep(0.1) of collect_last_n is over (lines 757-758)
Wake ==
    \E p \in Procs :
      /\ procs[p].pc = "sleep"
      /\ procs' = [procs EXCEPT ![p] =
            RunToAwait(_caixa_cache, time, [procs[p] EXCEPT !.pc = "loop"])]
      /\ _agg_cache' = AggAfter(_agg_cache, procs'[p], time)
      /\ UNCHANGED <<prefer_mirror, upstream, time, _caixa_cache, ncalls, draws, out>>

\* the caller has its answer
Return ==
    \E p \in Procs :
      /\ procs[p].pc = "done"
      /\ procs' = [procs EXCEPT ![p] =
            [IdleProc EXCEPT !.prev =
                IF procs[p].op = "contest" /\ procs[p].wrote # None
                THEN [k |-> "call", key |-> procs[p].key, ret |-> procs[p].ret,
                      wrote |-> procs[p].wrote]
                ELSE IF procs[p].op \in {"lotofacil", "stats"}
                        /\ procs[p].stage # "cache"
                THEN [k |-> "call",
                      key |-> _agg_key(procs[p].op,
                                       Params(procs[p].op, procs[p].args)),
                      ret |-> procs[p].ret, at |-> time]
                ELSE procs[p].prev]]
      /\ UNCHANGED <<prefer_mirror, upstream, time, _caixa_cache, _agg_cache,
                     ncalls, draws, out>>

Tick ==
    /\ time < MaxTime
    /\ \A p \in Procs : procs[p].pc # "done"
    /\ time' = time + 1
    /\ UNCHANGED <<prefer_mirror, upstream, _caixa_cache, _agg_cache, procs,
                   ncalls, draws, out>>

Next ==
    \/ StartLatest \/ StartContest \/ Fetch \/ Return \/ Tick

Spec == Init /\ [][Next]_vars

-----------------------------------------------------------------------------
(* SpecCollect: one caller walking the contests down from the latest *)

CollectInit ==
    Loaded({FALSE}, {AnyUpstream(ds) : ds \in [1..MaxLatest -> DateStrings]})

CollectNext ==
    \/ StartLastN \/ StartByDate \/ Fetch \/ Return

SpecCollect == CollectInit /\ [][CollectNext]_vars

-----------------------------------------------------------------------------
(* SpecRace: two callers of resolve_contest whose fetches interleave *)

RaceNext ==
    \/ RaceContest \/ Fetch \/ Return \/ Tick

RaceInit ==
    Loaded({FALSE}, {AnyUpstream([m \in 1..MaxContest |->
                        IF m % 2 = 1 THEN DMY(5, 2, 2024) ELSE ISO(2024, 2, 9)])})

SpecRace == RaceInit /\ [][RaceNext]_vars

-----------------------------------------------------------------------------
(* SpecSim: simulate(contest) against upstreams that answer steadily.     *)
(* Contest m is dated day m of January 2024, the contests of undated have *)
(* no date, the contests of down cannot be resolved.  One history has its *)
(* dates out of order: its newest contest is dated as its oldest.         *)

SteadyUpstream(L, undated, down) ==
    [mode |-> "steady", L |-> L,
     dates |-> [m \in 1..L |-> IF m \in undated THEN EmptyStr
                               ELSE DMY(m, 1, 2024)],
     down |-> down, serving |-> "json"]

SimUpstreams ==
    {SteadyUpstream(L, undated, down) :
        L \in {2, MaxHistory - 1, MaxHistory},
        undated \in {{}, {1}, {MaxHistory - 1}, {MaxHistory}},
        down \in {{}, {2}}}
    \cup {[SteadyUpstream(MaxHistory, {}, {})
              EXCEPT !.dates[MaxHistory] = DMY(1, 1, 2024)]}

SimInit == Loaded({FALSE}, SimUpstreams)

SimNext ==
    \/ StartSimulate \/ Fetch \/ Wake \/ Return

SpecSim == SimInit /\ [][SimNext]_vars

-----------------------------------------------------------------------------
(* SpecFair: one caller of the resolver and of the collectors, with either *)
(* setting of PREFER_MIRROR.  Every HTTP call ends (the client has a       *)
(* timeout) and every answer is handed to its caller, hence the weak       *)
(* fairness of Fetch and Return.                                           *)

FairNext ==
    \/ StartLatest \/ StartContest \/ StartLastN \/ StartByDate
    \/ Fetch \/ Return

SpecFair ==
    Init /\ [][FairNext]_vars /\ WF_vars(Fetch) /\ WF_vars(Return)

-----------------------------------------------------------------------------
(* SpecFar: simulate of the oldest contest, and backtest_latest, against   *)
(* steady histories: one a contest longer than the list simulate          *)
(* collects, short ones around the least history backtest_latest asks     *)
(* for (of one of which the newest contest cannot be resolved), and two   *)
(* longer than the attempts of backtest_latest in which only every fourth *)
(* or every fifth contest can be resolved.                                *)

FarInit ==
    Loaded({FALSE},
           {SteadyUpstream(SIM_COLLECT_LIMIT + 1, {}, {})}
           \cup {SteadyUpstream(L, {}, {}) :
                    L \in {1, BACKTEST_MIN_DRAWS, BACKTEST_MIN_DRAWS + 1}}
           \cup {SteadyUpstream(BACKTEST_MIN_DRAWS + 1, {},
                                {BACKTEST_MIN_DRAWS + 1})}
           \cup {SteadyUpstream(BACKTEST_MAX_ATTEMPTS + 10, {},
                    {m \in 1..(BACKTEST_MAX_ATTEMPTS + 10) : m % k # 0}) :
                    k \in {4, 5}})

\* simulate(1)
StartSimulateOldest ==
    /\ ncalls = 0
    /\ Begin("fg", "simulate",
             [NoArgs EXCEPT !.contest = 1, !.limit = SIM_COLLECT_LIMIT],
             KeyLatest)

\* GET /backtest/latest
StartBacktest ==
    /\ ncalls = 0
    /\ Begin("fg", "backtest", NoArgs, KeyLatest)

FarNext ==
    \/ StartSimulateOldest \/ StartBacktest \/ Fetch \/ Wake \/ Return

SpecFar == FarInit /\ [][FarNext]_vars

-----------------------------------------------------------------------------
(* SpecAgg: one client of the endpoints /lotofacil and /stats, a clock,    *)
(* and sources that answer steadily: a history of MaxLatest contests, of   *)
(* which contest 1 may be unresolvable.                                    *)

AggInit ==
    Loaded({FALSE}, {SteadyUpstream(MaxLatest, {}, down) : down \in {{}, {1}}})

AggNext ==
    \/ StartLotofacil \/ StartStats \/ Fetch \/ Return \/ Tick

SpecAgg == AggInit /\ [][AggNext]_vars

-----------------------------------------------------------------------------
(* SpecWalk: collect_by_date over a longer history whose sources answer   *)
(* steadily: every contest has one of the dates of DateStrings, in any    *)
(* order, and the contests of down cannot be resolved.                    *)

WalkUpstreams ==
    {[mode |-> "steady", L |-> MaxWalk, dates |-> ds, down |-> down,
      serving |-> "json"] :
        ds \in [1..MaxWalk -> DateStrings],
        down \in {{}, {MaxWalk - 1}}}

WalkInit == Loaded({FALSE}, WalkUpstreams)

WalkNext ==
    \/ StartByDate \/ Fetch \/ Return

SpecWalk == WalkInit /\ [][WalkNext]_vars

-----------------------------------------------------------------------------
(* SpecPure: the statistics functions applied to bounded draw sequences *)

\* a sequence of draws with the numbers picks[1..k]; contests descending
\* (as the collectors return them) or ascending
PureDraws(picks, order) ==
    [i \in DOMAIN picks |->
        Draw(IF order = "desc" THEN Len(picks) + 1 - i ELSE i,
             DMY(10, 1, 2024), NumsLib[picks[i]], "caixa")]

PureInputs ==
    {PureDraws(picks, order) :
        picks \in UNION {[1..k -> DOMAIN NumsLib] : k \in 0..MaxDraws},
        order \in {"desc", "asc"}}

Windows == (-2)..(MaxDraws + 1)

ParityArgs ==
    {<<8, 7>>, <<7, 8>>, <<12, 3>>, <<2, 13>>, <<9, 9>>, <<3, 4>>, <<-1, 16>>,
     <<16, -1>>}

PureInit ==
    /\ draws \in PureInputs
    /\ out = [op |-> "none"]
    /\ prefer_mirror = FALSE
    /\ upstream = [mode |-> "steady", L |-> 0, dates |-> <<>>,
                   down |-> {}, serving |-> "json"]
    /\ time = 0
    /\ _caixa_cache = <<>>
    /\ _agg_cache = <<>>
    /\ procs = [p \in Procs |-> IdleProc]
    /\ ncalls = 0

Frequencies ==
    /\ out.op = "none"
    /\ out' = [op |-> "frequencies", val |-> frequencies(draws)]
    /\ UNCHANGED <<draws, net_vars>>

ClassifyTrend ==
    /\ out.op = "none"
    /\ \E w \in Windows :
         out' = [op |-> "classify_trend", window |-> w,
                 val |-> classify_trend(draws, w)]
    /\ UNCHANGED <<draws, net_vars>>

BuildSuggestion ==
    /\ out.op = "none"
    /\ \E a \in ParityArgs :
         out' = [op |-> "build_parity_suggestion",
                 even_needed |-> a[1], odd_needed |-> a[2],
                 val |-> build_parity_suggestion(draws, a[1], a[2])]
    /\ UNCHANGED <<draws, net_vars>>

PureNext == Frequencies \/ ClassifyTrend \/ BuildSuggestion

SpecPure == PureInit /\ [][PureNext]_vars

-----------------------------------------------------------------------------
(* Claims on the statistics functions *)

SetOf(s) == Range(s)

\* C8: classify_trend partitions 1..25 into hot, warm and cold: the three
\* lists are pairwise disjoint, hold no number twice, and together hold
\* every number 1..25, for every draw sequence (the empty one included) and
\* every window.
C8_TrendPartition ==
    out.op = "classify_trend" =>
        LET t == out.val IN
        /\ SetOf(t.hot) \cup SetOf(t.warm) \cup SetOf(t.cold) = 1..25
        /\ SetOf(t.hot) \cap SetOf(t.warm) = {}
        /\ SetOf(t.hot) \cap SetOf(t.cold) = {}
        /\ SetOf(t.warm) \cap SetOf(t.cold) = {}
        /\ Len(t.hot) + Len(t.warm) + Len(t.cold) = 25

C8_Witness ==
    /\ out.op = "classify_trend"
    /\ Len(draws) >= 3
    /\ out.val.hot # <<>> /\ out.val.warm # <<>> /\ out.val.cold # <<>>

\* C9: frequencies(draws) has one row for each number 1..25, in order, and
\* its counts sum to 15 x len(draws); on the empty sequence every count is 0.
C9_FrequenciesSum ==
    out.op = "frequencies" =>
        /\ Len(out.val) = 25
        /\ \A n \in 1..25 : out.val[n].n = n
        /\ SumSeq([n \in 1..25 |-> out.val[n].count]) = 15 * Len(draws)
        /\ (Len(draws) = 0 => \A n \in 1..25 : out.val[n].count = 0)

C9_Witness ==
    /\ out.op = "frequencies"
    /\ Len(draws) >= 3
    /\ \E n, m \in 1..25 : out.val[n].count = Len(draws) /\ out.val[m].count = 1

\* C5: build_suggestion returns exactly even_needed even numbers and
\* odd_needed odd numbers (a 15-number combo) whenever at least 2 draws are
\* supplied, even_needed + odd_needed = 15 and the candidate pool holds at
\* least 15 numbers after the fallback.  (Stated for the splits that 1..25
\* can satisfy at all: at most 12 even and at most 13 odd numbers.)
C5_ExactParityCounts ==
    ( /\ out.op = "build_parity_suggestion"
      /\ Len(draws) >= 2
      /\ out.even_needed >= 0 /\ out.odd_needed >= 0
      /\ out.even_needed + out.odd_needed = 15
      /\ out.even_needed <= 12 /\ out.odd_needed <= 13
      /\ Len(CandidatePool(frequencies(draws),
                           Range(classify_trend(draws, 20).hot
                                 \o classify_trend(draws, 20).warm))) >= 15 )
    => /\ Len(out.val.even) = out.even_needed
       /\ Len(out.val.odd) = out.odd_needed
       /\ \A i \in DOMAIN out.val.even : out.val.even[i] % 2 = 0
       /\ \A i \in DOMAIN out.val.odd : out.val.odd[i] % 2 = 1
       /\ Len(out.val.combo) = 15

-----------------------------------------------------------------------------
(* Claims on the resolver, the collectors and the simulation *)

Fg == procs["fg"]

\* the Draws a request holds or has returned so far
DrawsOf(p) ==
    (IF p.ret.k = "draw" /\ p.pc = "done" THEN {p.ret} ELSE {})
    \cup (IF p.ret.k = "list" THEN Range(p.ret.items) ELSE {})
    \cup (IF p.got.k = "draw" THEN {p.got} ELSE {})
    \cup Range(p.acc)

CachedDraws == {_caixa_cache[key].payload : key \in DOMAIN _caixa_cache}

ZeroPlaceholder(d) == d.contest = 0 /\ d.numbers = <<>>

\* C1: every Draw stored in the draw cache or returned by resolve_latest,
\* resolve_contest, collect_last_n or collect_by_date, other than the
\* zero-contest placeholder, has exactly 15 numbers, all distinct, each in
\* 1..25, and even_count + odd_count = 15, whatever the upstream answers.
C1_DrawsWellFormed ==
    \A d \in CachedDraws \cup UNION {DrawsOf(procs[p]) : p \in Procs} :
        \/ (ZeroPlaceholder(d) /\ d \notin CachedDraws)
        \/ /\ Len(d.numbers) = 15
           /\ \A i, j \in 1..15 : i # j => d.numbers[i] # d.numbers[j]
           /\ \A i \in 1..15 : d.numbers[i] \in 1..25
           /\ d.even_count + d.odd_count = 15

C1_Witness ==
    /\ Fg.pc = "done" /\ Fg.op = "by_date"
    /\ Len(Fg.ret.items) = 2
    /\ \E d \in CachedDraws : d.source = "html"
    /\ \E d \in CachedDraws : d.source = "mirror"

\* C2: when every tier fails, resolve_contest(n) returns None and
\* resolve_latest returns the zero-contest placeholder (contest 0, no
\* numbers); neither raises.
C2_AllTiersFail ==
    ( /\ Fg.pc = "done" /\ Fg.op \in {"latest", "contest"}
      /\ ~Fg.hit
      /\ \A i \in DOMAIN Fg.log : ~Fg.log[i].ok )
    => /\ Fg.op = "contest" => Fg.ret = [k |-> "none"]
       /\ Fg.op = "latest" =>
            Fg.ret.k = "draw" /\ Fg.ret.contest = 0 /\ Fg.ret.numbers = <<>>

C2_Witness ==
    /\ Fg.pc = "done" /\ Fg.op = "contest" /\ ~Fg.hit
    /\ Len(Fg.log) = 8
    /\ \A i \in DOMAIN Fg.log : ~Fg.log[i].ok
    /\ Fg.ret = [k |-> "none"]

\* C4: collect_by_date(start, end, max_fetch) never returns a Draw dated
\* outside [start, end]: every returned draw has a parsable date d with
\* d >= start when start is given and d <= end when end is given, for every
\* upstream history, dates that do not follow the contest numbers included.
C4_WithinWindow ==
    (Fg.pc = "done" /\ Fg.op = "by_date") =>
        \A i \in DOMAIN Fg.ret.items :
            LET dd == parse_draw_date(Fg.ret.items[i].date)
                start == Fg.args.start
                end == Fg.args.end
            IN /\ dd.k = "date"
               /\ start.k = "date" => ~DateLt(dd, start)
               /\ end.k = "date" => ~DateLt(end, dd)

C4_Witness ==
    /\ Fg.pc = "done" /\ Fg.op = "by_date"
    /\ Fg.args.start.k = "date" /\ Fg.args.end.k = "date"
    /\ Len(Fg.calls) = 2
    /\ Len(Fg.ret.items) = 1
    /\ \E d \in CachedDraws :
         LET dd == parse_draw_date(d.date)
         IN dd.k = "date" /\ DateLt(Fg.args.end, dd)

\* C6: every draw of the past-only subset that simulate(contest) hands to
\* the suggestion builder has a parsable date strictly earlier than the
\* date of the target draw.
C6_NoLookahead ==
    (Fg.pc = "done" /\ Fg.op = "simulate" /\ Fg.ret.k = "result") =>
        LET target == CHOOSE d \in Range(Fg.acc) : d.contest = Fg.args.contest
            td == parse_draw_date(target.date)
        IN \A i \in DOMAIN Fg.ret.past_draws :
              LET dd == parse_draw_date(Fg.ret.past_draws[i].date)
              IN /\ dd.k = "date" /\ td.k = "date"
                 /\ \/ dd.y < td.y
                    \/ dd.y = td.y /\ dd.m < td.m
                    \/ dd.y = td.y /\ dd.m = td.m /\ dd.d < td.d

C6_Witness ==
    /\ Fg.pc = "done" /\ Fg.op = "simulate" /\ Fg.ret.k = "result"
    /\ Len(Fg.ret.past_draws) >= 20
    /\ Len(Fg.acc) > Len(Fg.ret.past_draws) + 1

\* C7: simulate(contest) ends in a SimulationResult, in the error not_found
\* or in the error insufficient_history, and never with an unhandled
\* exception, for every contest argument and every upstream history.
C7_ThreeOutcomes ==
    (Fg.pc = "done" /\ Fg.op = "simulate") =>
        \/ Fg.ret.k = "result"
        \/ Fg.ret.k = "error" /\ Fg.ret.error \in {"not_found", "insufficient_history"}

\* the tiers of a fetch log in the order each was first asked
RECURSIVE FirstAsked(_, _)
FirstAsked(log, seen) ==
    IF Len(log) = 0 THEN seen
    ELSE IF \E i \in DOMAIN seen : seen[i] = Head(log).tier
         THEN FirstAsked(Tail(log), seen)
         ELSE FirstAsked(Tail(log), Append(seen, Head(log).tier))

PriorityOrder ==
    IF prefer_mirror THEN <<"mirror", "json", "html">>
    ELSE <<"json", "mirror", "html">>

TierSource(tier) == IF tier = "json" THEN "caixa" ELSE tier

SecondWithinTTL ==
    /\ Fg.pc = "done" /\ Fg.op = "contest"
    /\ Fg.prev.k = "call" /\ Fg.prev.key = Fg.key
    /\ Fg.prev.wrote # [k |-> "none"]
    /\ Fg.prev.ret = Fg.prev.wrote.payload
    /\ Fg.t0 - Fg.prev.wrote.ts <= CAIXA_TTL_SEC

\* C3: if a first resolve_contest(n) returned a Draw and cached it at time
\* ts, every later call at time now with now - ts <= TTL returns that same
\* Draw and performs zero fetches on any tier.
C3_SecondCallSameDraw ==
    SecondWithinTTL => (Fg.ret = Fg.prev.ret /\ Fg.log = <<>>)

\* C3, amended: such a later call performs zero fetches and returns the
\* Draw stored under the key of contest n when it starts; that is the Draw
\* of the first call unless another resolve_contest(n) that had missed the
\* cache stored its own Draw after ts.
C3_ServedFromCache ==
    SecondWithinTTL =>
        /\ Fg.log = <<>>
        /\ Fg.seen # [k |-> "none"] /\ Fg.ret = Fg.seen.payload
        /\ Fg.seen.ts >= Fg.prev.wrote.ts
        /\ Fg.seen = Fg.prev.wrote => Fg.ret = Fg.prev.ret

C3_Witness ==
    /\ SecondWithinTTL
    /\ Fg.t0 - Fg.prev.wrote.ts = CAIXA_TTL_SEC
    /\ Fg.seen = Fg.prev.wrote
    /\ Fg.ret = Fg.prev.ret /\ Fg.log = <<>>

-----------------------------------------------------------------------------
(* Claims on the collectors.  In SpecCollect the cache starts empty and   *)
(* one collector runs, so the entry under "latest" is the Draw its        *)
(* resolve_latest call returned and the entry under the key of contest n, *)
(* if there is one, is the Draw its resolve_contest(n) call returned.     *)

Collected == Fg.pc = "done" /\ Fg.op \in {"last_n", "by_date"}

\* the contest number the walk of the collector started from
WalkFrom ==
    IF KeyLatest \in DOMAIN _caixa_cache
    THEN _caixa_cache[KeyLatest].payload.contest ELSE 0

Resolved(n) == KeyContest(n) \in DOMAIN _caixa_cache

\* the Draws of the contests of a walk whose resolution succeeded, in walk
\* order
RECURSIVE Successes(_)
Successes(walk) ==
    IF Len(walk) = 0 THEN <<>>
    ELSE (IF Resolved(Head(walk))
          THEN <<_caixa_cache[KeyContest(Head(walk))].payload>> ELSE <<>>)
         \o Successes(Tail(walk))

\* the calls of a walk go down by one from the latest contest, one call for
\* each contest number, and never below contest 1
WalkDescends(calls) ==
    /\ Len(calls) <= WalkFrom
    /\ \A i \in DOMAIN calls : calls[i] = WalkFrom - i + 1

\* C11: collect_last_n(limit) with latest contest L >= 1 returns at most
\* limit draws: exactly the draws of the contests L, L-1, ..., 1 whose
\* resolution succeeds, in walk order, until limit draws are held or
\* contest 1 has been walked; a failed resolution neither aborts the walk
\* nor counts toward limit, and each walked contest number causes exactly
\* one resolve_contest call.
C11_LastNWalk ==
    (Collected /\ Fg.op = "last_n" /\ WalkFrom >= 1) =>
        LET k == Len(Fg.calls) IN
        /\ Fg.ret.k = "list"
        /\ Len(Fg.ret.items) <= Fg.args.limit
        /\ WalkDescends(Fg.calls)
        /\ Fg.ret.items = Successes(Fg.calls)
        /\ Len(Fg.ret.items) = Fg.args.limit \/ k = WalkFrom
        /\ k >= 1 => Len(Successes(SubSeq(Fg.calls, 1, k - 1))) < Fg.args.limit

C11_Witness ==
    /\ Collected /\ Fg.op = "last_n"
    /\ Fg.args.limit = 1
    /\ Fg.calls = <<2, 1>>
    /\ ~Resolved(2)
    /\ Len(Fg.ret.items) = 1

\* C12: collect_by_date(start, end, max_fetch) performs at most max_fetch
\* resolve_contest calls in total, counting successes, failures, draws
\* with unknown dates and out-of-window draws alike, and never resolves a
\* contest number below 1.
C12_FetchBudget ==
    Fg.op = "by_date" =>
        /\ Len(Fg.calls) <= Fg.args.max_fetch
        /\ \A i \in DOMAIN Fg.calls : Fg.calls[i] >= 1

\* the budget ends the walk after contest 2, whose draw has no date, with
\* contest 1 still to go
C12_Witness ==
    /\ Collected /\ Fg.op = "by_date"
    /\ Fg.args.max_fetch = 1
    /\ Fg.calls = <<2>>
    /\ Resolved(2)
    /\ parse_draw_date(_caixa_cache[KeyContest(2)].payload.date).k = "none"
    /\ Fg.ret.items = <<>>

\* the walk of collect_by_date ended with contests and budget left
StoppedEarly ==
    /\ Collected /\ Fg.op = "by_date"
    /\ Fg.calls # <<>>
    /\ Fg.calls[Len(Fg.calls)] > 1
    /\ Len(Fg.calls) < Fg.args.max_fetch

\* C13: in collect_by_date the walk stops before reaching contest 1 or the
\* max_fetch budget only when a resolved draw with a parsable date earlier
\* than start is met while at least one draw has already been collected; a
\* draw earlier than start met while the result is still empty, a draw
\* later than end, a draw with an unknown date or a failed resolution
\* never stops the walk.
C13_EarlyStop ==
    StoppedEarly =>
        LET last == Fg.calls[Len(Fg.calls)] IN
        /\ Resolved(last)
        /\ LET dd == parse_draw_date(_caixa_cache[KeyContest(last)].payload.date)
           IN /\ dd.k = "date"
              /\ Fg.args.start.k = "date"
              /\ DateLt(dd, Fg.args.start)
        /\ Fg.ret.items # <<>>

\* the walk collected contest 3, met contest 2 earlier than start and
\* stopped with contest 1 and budget left
C13_Witness ==
    /\ StoppedEarly
    /\ Fg.calls = <<3, 2>>
    /\ Len(Fg.ret.items) = 1
    /\ Fg.ret.items[1].contest = 3

\* C14: the lists returned by collect_last_n and collect_by_date are
\* ordered most-recent-first: contest numbers are strictly decreasing along
\* the list, so no contest appears twice, for any upstream payloads.
C14_StrictlyDecreasing ==
    Collected =>
        \A i, j \in DOMAIN Fg.ret.items :
            i < j => Fg.ret.items[i].contest > Fg.ret.items[j].contest

\* C15: a payload fetched for contest n whose contest number is not n is
\* treated as a failure on every tier: resolve_contest(n) never returns,
\* and never stores under the cache key of n, a Draw whose contest field
\* differs from n, whatever field aliases (numero, concurso) and values the
\* upstream payload carries.
C15_ContestMatchesKey ==
    /\ \A key \in DOMAIN _caixa_cache :
          key # KeyLatest => _caixa_cache[key].payload.contest = key[2]
    /\ (Fg.pc = "done" /\ Fg.op = "contest" /\ Fg.ret.k = "draw") =>
          Fg.ret.contest = Fg.args.n

-----------------------------------------------------------------------------
(* Claims on the trend classification and the suggestion builder *)

\* how many of the W most recent draws (by contest; the contests of draws
\* are 1..Len(draws)) hold the number n
CountInRecent(n, W) ==
    Cardinality({i \in DOMAIN draws :
                    /\ draws[i].contest > Len(draws) - W
                    /\ n \in Range(draws[i].numbers)})

\* C16: for every draw sequence and window, with W = min(window, number of
\* draws) the size of the window actually used (the W most recent draws by
\* contest), classify_trend puts a number in hot exactly when its
\* occurrence count c in those draws is at least 70% of W (10c >= 7W), in
\* cold exactly when c is below 30% of W (10c < 3W), and in warm otherwise.
C16_TrendThresholds ==
    out.op = "classify_trend" =>
        LET W == Min(out.window, Len(draws))
            t == out.val
        IN \A n \in 1..25 :
             LET c == CountInRecent(n, W) IN
             /\ n \in SetOf(t.hot) <=> 10 * c >= 7 * W
             /\ n \in SetOf(t.cold) <=> 10 * c < 3 * W
             /\ n \in SetOf(t.warm) <=> (10 * c >= 3 * W /\ 10 * c < 7 * W)

Suggested == out.op = "build_parity_suggestion"

\* occurrences of n over all supplied draws
Occurrences(n) ==
    Cardinality({i \in DOMAIN draws : n \in Range(draws[i].numbers)})

\* the numbers the builder may choose from: those classify_trend (window
\* 20) does not call cold, or all 25 when these are fewer than 15
Eligible ==
    LET trend == classify_trend(draws, 20)
    IN SetOf(NsOf(CandidatePool(frequencies(draws),
                                SetOf(trend.hot \o trend.warm))))

\* a is ranked before b: the higher count first, then the smaller number
Outranks(a, b) ==
    Occurrences(a) > Occurrences(b) \/ (Occurrences(a) = Occurrences(b) /\ a < b)

\* list is the first `needed` numbers of S in rank order
IsTopRanked(list, S, needed) ==
    /\ Len(list) = Min(needed, Cardinality(S))
    /\ \A i \in DOMAIN list :
          /\ list[i] \in S
          /\ Cardinality({m \in S : Outranks(m, list[i])}) = i - 1

\* C17: in build_suggestion the even list is the first even_needed entries
\* of the eligible even numbers ordered by occurrence count over all
\* supplied draws descending, ties broken by the smaller number first, and
\* the odd list is the first odd_needed entries of the eligible odd numbers
\* ordered the same way.
C17_RankedSelection ==
    (Suggested /\ Len(draws) >= 2) =>
        /\ IsTopRanked(out.val.even, {n \in Eligible : n % 2 = 0},
                       out.val.parity.even_count)
        /\ IsTopRanked(out.val.odd, {n \in Eligible : n % 2 = 1},
                       out.val.parity.odd_count)

\* the numbers the combo shares with the first draw of the sequence
SharedWithFirst == SetOf(out.val.combo) \cap SetOf(draws[1].numbers)

\* C18: for every suggestion built from at least 2 draws, sum_ok is true
\* exactly when 190 <= sum(combo) <= 210, repeat_ok is true exactly when
\* the combo shares at most 9 numbers with the first (most recent) draw of
\* the supplied sequence, and valid is true exactly when both sum_ok and
\* repeat_ok are true.
C18_ValidationFlags ==
    (Suggested /\ Len(draws) >= 2) =>
        LET total == SumSeq(out.val.combo) IN
        /\ out.val.rules.sum_ok <=> (190 <= total /\ total <= 210)
        /\ out.val.rules.repeat_ok <=> Cardinality(SharedWithFirst) <= 9
        /\ out.val.valid <=> (out.val.rules.sum_ok /\ out.val.rules.repeat_ok)

\* a valid 15-number combo that shares exactly 9 numbers with the first draw
C18_Witness ==
    /\ Suggested /\ Len(draws) >= 2
    /\ Len(out.val.combo) = 15
    /\ Cardinality(SharedWithFirst) = 9
    /\ out.val.valid

\* the split a suggestion reports, and the pair that was asked for
UsedSplit == <<out.val.parity.even_count, out.val.parity.odd_count>>
AskedSplit == <<out.even_needed, out.odd_needed>>

\* C19: build_suggestion works with a parity split that always sums to 15:
\* a requested pair (even_needed, odd_needed) with both values non-negative
\* and sum 15 is used unchanged, and every requested pair that does not sum
\* to 15 is replaced by the default split of 8 even and 7 odd; the reported
\* pattern string is the split actually used.
C19_SplitOrDefault ==
    Suggested =>
        /\ UsedSplit[1] + UsedSplit[2] = 15
        /\ (AskedSplit[1] >= 0 /\ AskedSplit[2] >= 0
            /\ AskedSplit[1] + AskedSplit[2] = 15) => UsedSplit = AskedSplit
        /\ AskedSplit[1] + AskedSplit[2] # 15 => UsedSplit = <<8, 7>>
        /\ out.val.pattern = UsedSplit

\* C19, amended: given at least 2 draws, the split always sums to 15 and a
\* non-negative pair with sum 15 is used unchanged; any other pair is first
\* clamped (even_needed to 0..15, odd_needed to 0..15 - even_needed) and
\* the clamped pair is used if it sums to 15, e.g. 9/9 becomes 9/6; only a
\* pair that still does not sum to 15 is replaced by the default 8/7.  The
\* reported pattern is the split used.  With fewer than 2 draws the
\* requested pair is reported as given.
C19_SplitClamped ==
    Suggested =>
        IF Len(draws) < 2
        THEN UsedSplit = AskedSplit /\ out.val.pattern = AskedSplit
        ELSE LET e == Max(0, Min(15, AskedSplit[1]))
                 o == Max(0, Min(15 - e, AskedSplit[2]))
             IN /\ UsedSplit[1] + UsedSplit[2] = 15
                /\ UsedSplit[1] \in 0..15 /\ UsedSplit[2] \in 0..15
                /\ (AskedSplit[1] >= 0 /\ AskedSplit[2] >= 0
                    /\ AskedSplit[1] + AskedSplit[2] = 15) => UsedSplit = AskedSplit
                /\ e + o = 15 => UsedSplit = <<e, o>>
                /\ e + o # 15 => UsedSplit = <<8, 7>>
                /\ out.val.pattern = UsedSplit

\* the request 9/9 on 2 or more draws is served with the split 9/6
C19_Witness ==
    /\ Suggested /\ Len(draws) >= 2
    /\ AskedSplit = <<9, 9>>
    /\ UsedSplit = <<9, 6>>
    /\ Len(out.val.even) = 9 /\ Len(out.val.odd) = 6

\* C20: when fewer than 2 draws are supplied (0 or 1), build_suggestion
\* returns an explicit empty and invalid suggestion: even, odd and combo
\* are empty, valid, sum_ok and repeat_ok are all false, and no trend
\* classification or ranking is computed (the result carries the error
\* and no trend counts).
C20_TooFewDraws ==
    (Suggested /\ Len(draws) < 2) =>
        /\ out.val.even = <<>> /\ out.val.odd = <<>> /\ out.val.combo = <<>>
        /\ ~out.val.valid
        /\ ~out.val.rules.sum_ok /\ ~out.val.rules.repeat_ok
        /\ out.val.error = "insufficient_draws"
        /\ "meta" \notin DOMAIN out.val

C20_Witness ==
    /\ Suggested /\ Len(draws) = 1
    /\ AskedSplit = <<8, 7>>
    /\ out.val.combo = <<>> /\ ~out.val.valid

-----------------------------------------------------------------------------
(* Claims on the simulation.  Fg.acc is the list collect_last_n handed to *)
(* simulate.                                                               *)

Simulated == Fg.pc = "done" /\ Fg.op = "simulate"

TargetFound == \E d \in Range(Fg.acc) : d.contest = Fg.args.contest

SimTarget == CHOOSE d \in Range(Fg.acc) : d.contest = Fg.args.contest

\* d has a parsable date strictly before the date of the target draw
DatedBeforeTarget(d) ==
    LET dd == parse_draw_date(d.date)
        td == parse_draw_date(SimTarget.date)
    IN /\ dd.k = "date" /\ td.k = "date"
       /\ \/ dd.y < td.y
          \/ dd.y = td.y /\ dd.m < td.m
          \/ dd.y = td.y /\ dd.m = td.m /\ dd.d < td.d

PastOnly == SelectSeq(Fg.acc, DatedBeforeTarget)

\* C21: simulate(contest) returns insufficient_history exactly when the
\* target draw was found and fewer than 20 collected draws are dated
\* strictly before the target's date; with 20 or more such draws it runs
\* the suggestion builder on that subset with the default 8/7 split and
\* returns a result.
C21_InsufficientHistory ==
    Simulated =>
        /\ (Fg.ret.k = "error" /\ Fg.ret.error = "insufficient_history")
              <=> (TargetFound /\ Len(PastOnly) < 20)
        /\ (TargetFound /\ Len(PastOnly) >= 20) =>
              /\ Fg.ret.k = "result"
              /\ Fg.ret.past_draws = PastOnly
              /\ Fg.ret.sugg.meta.draws_analyzed = Len(PastOnly)
              /\ Fg.ret.pattern = <<8, 7>>

\* C22: simulate(contest) returns not_found only when the target contest
\* is absent upstream: for every contest c with 1 <= c <= latest contest
\* whose per-contest resolution succeeds, simulate(c) finds the target draw
\* and does not return not_found, however far c lies behind the latest
\* contest.
C22_FoundWhenResolvable ==
    ( /\ Simulated
      /\ upstream.mode = "steady"
      /\ upstream.L \notin upstream.down
      /\ Fg.args.contest \in (1..upstream.L) \ upstream.down )
    => ~(Fg.ret.k = "error" /\ Fg.ret.error = "not_found")

SimResult == Simulated /\ Fg.ret.k = "result"

\* C23: in a successful SimulationResult, hits is the ascending list of
\* exactly those numbers that are both in the suggestion's combo and in the
\* target draw's numbers, without duplicates, and hits_count equals the
\* length of hits (so 0 <= hits_count <= 15).
C23_HitsAreCommon ==
    SimResult =>
        LET hits == Fg.ret.hits IN
        /\ \A n \in 1..25 :
              (\E i \in DOMAIN hits : hits[i] = n)
                 <=> /\ \E i \in DOMAIN Fg.ret.sugg.combo : Fg.ret.sugg.combo[i] = n
                     /\ \E i \in DOMAIN SimTarget.numbers : SimTarget.numbers[i] = n
        /\ \A i, j \in DOMAIN hits : i < j => hits[i] < hits[j]
        /\ Fg.ret.hits_count = Len(hits)
        /\ Fg.ret.hits_count \in 0..15
        /\ Fg.ret.suggested_at_time = Fg.ret.sugg.combo
        /\ Fg.ret.official_result = SimTarget.numbers

\* some numbers of the combo hit and some miss
C23_Witness ==
    /\ SimResult
    /\ Fg.ret.hits_count >= 2
    /\ Fg.ret.hits_count < Len(Fg.ret.sugg.combo)
    /\ Len(Fg.ret.sugg.combo) >= 8

\* the fields of the dict simulate returns
ReportedFields == DOMAIN Fg.ret \ {"k", "past_draws", "sugg"}

\* C24: a successful result of simulate(contest) reports, next to hits and
\* the hit count, the suggestion's own validity flags (valid, sum_ok,
\* repeat_ok) with the values build_suggestion computed for the past-only
\* subset.
C24_FlagsReported ==
    SimResult =>
        /\ {"hits", "hits_count"} \subseteq ReportedFields
        /\ "valid" \in ReportedFields
        /\ Fg.ret.valid = Fg.ret.sugg.valid
        /\ \/ /\ "rules" \in ReportedFields
              /\ Fg.ret.rules = Fg.ret.sugg.rules
           \/ /\ {"sum_ok", "repeat_ok"} \subseteq ReportedFields
              /\ Fg.ret.sum_ok = Fg.ret.sugg.rules.sum_ok
              /\ Fg.ret.repeat_ok = Fg.ret.sugg.rules.repeat_ok

-----------------------------------------------------------------------------
(* Claims on the draw cache and the resolver *)

\* the lookup a resolver call starts with: Fg.seen is the entry it found
\* under its key at time Fg.t0, Fg.hit tells whether the lookup returned it
LookupIsByTTL ==
    Fg.op \in {"latest", "contest"} =>
        /\ Fg.hit <=> (Fg.seen # [k |-> "none"] /\ Fg.t0 - Fg.seen.ts <= CAIXA_TTL_SEC)
        /\ (Fg.hit /\ Fg.pc = "done") => Fg.ret = Fg.seen.payload

\* a step keeps every entry, and changes one only by storing, with the
\* time of the step as its timestamp, the Draw a fetch for that key yielded
EntriesOnlyReplaced ==
    \A key \in DOMAIN _caixa_cache :
        /\ key \in DOMAIN _caixa_cache'
        /\ \/ _caixa_cache'[key] = _caixa_cache[key]
           \/ /\ _caixa_cache'[key].ts = time
              /\ \E p \in Procs :
                   /\ procs[p].pc = "fetch" /\ procs[p].key = key
                   /\ procs'[p].got.k = "draw"
                   /\ _caixa_cache'[key] = [ts |-> time, payload |-> procs'[p].got]

\* C25: a cache entry written at time ts is returned by a lookup at time
\* now exactly when now - ts <= TTL (the boundary now - ts = TTL still
\* hits); once now - ts > TTL the entry is never returned again, a lookup
\* never removes or changes it, and it stays in the store until a later
\* successful fetch for the same key replaces it wholesale with a new
\* timestamp.
C25_EntryLifecycle ==
    [](LookupIsByTTL) /\ [][EntriesOnlyReplaced]_vars

\* a lookup passed over a stale entry, which stayed in the store until the
\* fetch of the same call replaced it
C25_Witness ==
    /\ Fg.pc = "done" /\ Fg.op = "contest" /\ ~Fg.hit
    /\ Fg.seen # [k |-> "none"]
    /\ Fg.t0 - Fg.seen.ts > CAIXA_TTL_SEC
    /\ Fg.wrote # [k |-> "none"]
    /\ Fg.wrote.ts > Fg.seen.ts
    /\ _caixa_cache[Fg.key] = Fg.wrote

\* C26: every Draw produced by normalization and returned by
\* resolve_latest or resolve_contest, or stored in the draw cache, has a
\* contest number that is a positive integer (>= 1); the value 0 occurs
\* only in the uncached placeholder that resolve_latest returns when all
\* tiers fail.
C26_PositiveContest ==
    /\ \A d \in CachedDraws : d.contest >= 1
    /\ (Fg.pc = "done" /\ Fg.op \in {"latest", "contest"} /\ Fg.ret.k = "draw") =>
          \/ Fg.ret.contest >= 1
          \/ /\ Fg.op = "latest" /\ ZeroPlaceholder(Fg.ret)
             /\ ~Fg.hit
             /\ \A i \in DOMAIN Fg.log : ~Fg.log[i].ok

\* C27: when resolve_latest yields a contest number L <= 0 (the
\* placeholder), collect_last_n and collect_by_date return the empty list
\* and make no resolve_contest call at all.
C27_NothingKnown ==
    (Fg.op \in {"last_n", "by_date"} /\ WalkFrom <= 0) =>
        /\ Fg.calls = <<>>
        /\ Fg.key = KeyLatest
        /\ Fg.pc = "done" => Fg.ret = [k |-> "list", items |-> <<>>]

\* every fetch of resolve_latest failed and the collector returned
C27_Witness ==
    /\ Collected /\ Fg.op = "by_date"
    /\ KeyLatest \notin DOMAIN _caixa_cache
    /\ Len(Fg.log) = Len(LatestAttempts(prefer_mirror))
    /\ \A i \in DOMAIN Fg.log : ~Fg.log[i].ok
    /\ Fg.ret.items = <<>>

\* both callers of resolve_contest(n) missed the cache, fetched, and have
\* their answers
BothMissedAndDone ==
    \A p \in Procs :
        /\ procs[p].pc = "done" /\ procs[p].op = "contest"
        /\ ~procs[p].hit /\ Len(procs[p].log) >= 1

CompleteDraw(d) ==
    /\ d.k = "draw"
    /\ Len(d.numbers) = 15
    /\ Cardinality(Range(d.numbers)) = 15
    /\ Range(d.numbers) \subseteq 1..25
    /\ d.even_count + d.odd_count = 15

\* the entries the two callers wrote
WrittenByCallers == {procs[p].wrote : p \in Procs} \ {[k |-> "none"]}

\* C28: two resolve_contest(n) requests interleaved at their fetch
\* suspension points can both miss the cache and both perform upstream
\* fetches; in every such interleaving each request returns either None or
\* a valid Draw of contest n, and the cache entry for n after both have
\* finished is the complete Draw written by one of them (last write wins),
\* never a partially written or mixed entry.
C28_RacingRequests ==
    BothMissedAndDone =>
        /\ \A p \in Procs :
              \/ procs[p].ret = [k |-> "none"]
              \/ /\ CompleteDraw(procs[p].ret)
                 /\ procs[p].ret.contest = procs[p].args.n
        /\ WrittenByCallers # {} =>
              /\ KeyContest(MaxContest) \in DOMAIN _caixa_cache
              /\ _caixa_cache[KeyContest(MaxContest)] \in WrittenByCallers
              /\ CompleteDraw(_caixa_cache[KeyContest(MaxContest)].payload)
              /\ \A w \in WrittenByCallers :
                    w.ts <= _caixa_cache[KeyContest(MaxContest)].ts

\* the fetches of the resolver call in progress, and the resolve_contest
\* calls of the walk in progress, stay within their bounds
WithinBounds ==
    /\ Len(Fg.log) <= (IF Fg.key = KeyLatest THEN 5 ELSE 8)
    /\ Fg.op = "last_n" => Len(Fg.calls) <= WalkFrom
    /\ Fg.op = "by_date" => Len(Fg.calls) <= Min(WalkFrom, Fg.args.max_fetch)

HotOrWarm ==
    LET trend == classify_trend(draws, 20)
    IN SetOf(trend.hot) \cup SetOf(trend.warm)

\* C30: cold numbers are excluded from the candidate pool: whenever at
\* least 15 numbers are classified hot or warm for the supplied draws,
\* every number in the returned combo is hot or warm; a cold number can
\* appear in the combo only when fewer than 15 numbers are hot or warm and
\* the unrestricted frequency table is used instead.
C30_NoColdInCombo ==
    (Suggested /\ Len(draws) >= 2 /\ Cardinality(HotOrWarm) >= 15) =>
        SetOf(out.val.combo) \subseteq HotOrWarm

-----------------------------------------------------------------------------
(* Further claims on the collectors *)

\* the contests the walk can reach within its budget of max_fetch calls
WithinBudget ==
    {m \in 1..WalkFrom : WalkFrom - m < Fg.args.max_fetch}

\* the date the upstream gives contest m, parsed
UpstreamDate(m) == parse_draw_date(upstream.dates[m])

\* among the contests that can be resolved, a smaller contest number never
\* has a later date
DatesFollowContests ==
    \A a, b \in (1..upstream.L) \ upstream.down :
        (a < b /\ UpstreamDate(a).k = "date" /\ UpstreamDate(b).k = "date")
            => ~DateLt(UpstreamDate(b), UpstreamDate(a))

InWindow(dd, start, end) ==
    /\ dd.k = "date"
    /\ start.k = "date" => ~DateLt(dd, start)
    /\ end.k = "date" => ~DateLt(end, dd)

\* C31: when the dates of the resolvable draws never increase as the
\* contest number decreases, the early stop of collect_by_date loses
\* nothing: the result contains every draw among the first max_fetch
\* contests walked down from the latest whose resolution succeeds and whose
\* parsable date lies in [start, end].
C31_EarlyStopLosesNothing ==
    (Collected /\ Fg.op = "by_date" /\ DatesFollowContests) =>
        \A m \in WithinBudget \ upstream.down :
            InWindow(UpstreamDate(m), Fg.args.start, Fg.args.end) =>
                \E i \in DOMAIN Fg.ret.items :
                    /\ Fg.ret.items[i].contest = m
                    /\ parse_draw_date(Fg.ret.items[i].date) = UpstreamDate(m)

\* the walk took contest 3, stopped at contest 2, earlier than start, and
\* left contest 1, which is no later than contest 2, unwalked
C31_Witness ==
    /\ StoppedEarly /\ DatesFollowContests
    /\ Fg.calls = <<3, 2>>
    /\ upstream.down = {}
    /\ UpstreamDate(1).k = "date"
    /\ Len(Fg.ret.items) = 1

\* C35: whenever resolve_latest returns a Draw with contest L >= 1 and
\* limit >= 1, collect_last_n(limit) returns a non-empty list whose first
\* element is the Draw of contest L, i.e. the newest known draw is always
\* part of the collected history.
C35_NewestCollected ==
    (Collected /\ Fg.op = "last_n" /\ WalkFrom >= 1 /\ Fg.args.limit >= 1) =>
        /\ Fg.ret.items # <<>>
        /\ Fg.ret.items[1].contest = WalkFrom
        /\ Fg.ret.items[1].numbers = _caixa_cache[KeyLatest].payload.numbers

-----------------------------------------------------------------------------
(* Further claims on the draw cache and the resolver *)

\* every entry of the draw cache holds a Draw a tier returned
OnlyDrawsStored ==
    \A key \in DOMAIN _caixa_cache :
        LET d == _caixa_cache[key].payload
        IN d.k = "draw" /\ ~ZeroPlaceholder(d) /\ d.source # "none"

\* a resolver call that went through the tiers and got nothing from any
FailedCall ==
    /\ Fg.pc = "done" /\ Fg.op \in {"latest", "contest"}
    /\ ~Fg.hit
    /\ \A i \in DOMAIN Fg.log : ~Fg.log[i].ok

\* after a failed call its key has the entry the call found, or none as
\* before, and a lookup of the key misses again
FailedCallLeftKey ==
    FailedCall =>
        /\ IF Fg.key \in DOMAIN _caixa_cache
           THEN Fg.seen = _caixa_cache[Fg.key]
           ELSE Fg.seen = [k |-> "none"]
        /\ _cache_get(_caixa_cache, Fg.key, CAIXA_TTL_SEC, time).k = "none"

\* a fetch that yields no Draw leaves the whole store as it is
FailingFetchKeepsStore ==
    \A p \in Procs :
        (procs[p].pc = "fetch" /\ procs'[p].got.k # "draw")
            => _caixa_cache' = _caixa_cache

\* C32: a draw-cache entry is created only by a successful resolution: a
\* resolve_contest or resolve_latest call in which every tier fails leaves
\* the draw cache exactly as it was (neither None nor the zero-contest
\* placeholder is stored, existing entries including stale ones are
\* untouched), so the next call for the same key attempts the tiers again.
C32_FailureStoresNothing ==
    /\ [](OnlyDrawsStored /\ FailedCallLeftKey)
    /\ [][FailingFetchKeepsStore]_vars

\* a call found a stale entry under its key, failed on every tier and left
\* the entry where it was
C32_Witness ==
    /\ FailedCall
    /\ Len(Fg.log) = Len(TierOrder(Fg.key, prefer_mirror))
    /\ Fg.seen # [k |-> "none"]
    /\ _caixa_cache[Fg.key] = Fg.seen
    /\ time - Fg.seen.ts > CAIXA_TTL_SEC

-----------------------------------------------------------------------------
(* Claims on the aggregate cache *)

AggregateOps == {"lotofacil", "stats"}

\* the key of the aggregate request q
KeyOf(q) == _agg_key(q.op, Params(q.op, q.args))

\* a payload without its age
Ageless(payload) == [payload EXCEPT !.cache_age_seconds = None]

\* an endpoint that computed its payload has stored it under its key
ComputedIsStored(ops) ==
    (Fg.pc = "done" /\ Fg.op \in ops /\ Fg.stage # "cache") =>
        /\ KeyOf(Fg) \in DOMAIN _agg_cache
        /\ _agg_cache[KeyOf(Fg)].ts = time
        /\ _agg_cache[KeyOf(Fg)].payload.body = Ageless(Fg.ret)

\* an entry holds an answer to the request its key names, and a request
\* answered from the cache gets an answer to its own parameters
NoSharing ==
    /\ \A key \in DOMAIN _agg_cache :
         LET body == _agg_cache[key].payload.body
         IN /\ body.limit = key[2].limit
            /\ ("count" \in DOMAIN body) <=> (key[1] = "lotofacil")
            /\ key[1] = "stats" => (body.hi = key[2].hi /\ body.lo = key[2].lo)
    /\ (Fg.pc = "done" /\ Fg.op \in AggregateOps) =>
         /\ Fg.ret.limit = Fg.args.limit
         /\ ("count" \in DOMAIN Fg.ret) <=> (Fg.op = "lotofacil")

\* a request starts that repeats, without force and within the TTL, the
\* last request that computed a payload: it is answered from the cache, with
\* the same payload and without a call of the resolver
RepeatIsServed(ops) ==
    LET q == procs'["fg"]
    IN ( /\ ncalls' = ncalls + 1
         /\ q.op \in ops /\ ~q.args.force
         /\ q.prev.k = "call" /\ q.prev.key = KeyOf(q)
         /\ time - q.prev.at <= AGG_TTL_SEC )
       => /\ q.pc = "done" /\ q.stage = "cache"
          /\ q.calls = <<>> /\ q.log = <<>>
          /\ Ageless(q.ret) = Ageless(q.prev.ret)

\* C33: every aggregate operation (lotofacil, stats, parity) stores the
\* payload it computes on a cache miss under the key built from its
\* operation name and parameters, so that an identical request issued
\* within the aggregate TTL without force is answered from the aggregate
\* cache without a new collection walk; requests with different parameters
\* never share an entry.
C33_AggregatesCached ==
    /\ [](ComputedIsStored(AggregateOps) /\ NoSharing)
    /\ [][RepeatIsServed(AggregateOps)]_vars

-----------------------------------------------------------------------------
(* Further claims on the resolver *)

\* the fetches of one resolver call go tier by tier: once the call has
\* left a tier, it makes no further fetch of that tier
TiersTriedOnce(log) ==
    \A i, j, k \in DOMAIN log :
        (i < j /\ j < k /\ log[i].tier = log[k].tier)
            => log[j].tier = log[i].tier

\* C34: within one resolve_contest or resolve_latest call each tier
\* (primary API, mirror, HTML scrape) is attempted at most once, with the
\* prefer-mirror flag set as well as unset: a tier that has failed in this
\* resolution is not fetched again later in the same resolution.
C34_TiersOnce ==
    \A p \in Procs :
        procs[p].op \in {"latest", "contest"} => TiersTriedOnce(procs[p].log)

-----------------------------------------------------------------------------
(* Further claims on the simulation and on the backtest *)

\* C36: every draw that simulate(c) passes to the suggestion builder has a
\* contest number strictly smaller than c: neither the target draw itself
\* nor any later contest contributes to the suggestion, for every upstream
\* history including ones whose dates are not monotonic in contest number.
C36_EarlierContestsOnly ==
    (Simulated /\ Fg.ret.k = "result") =>
        \A i \in DOMAIN Fg.ret.past_draws :
            Fg.ret.past_draws[i].contest < Fg.args.contest

Backtested == Fg.pc = "done" /\ Fg.op = "backtest"

\* the walk of backtest_latest: Fg.calls[1] is the latest contest, the
\* calls after it are the attempts, Fg.acc the draws gathered
BacktestWalk == Fg.op = "backtest" /\ Fg.stage = "walk"

WalkIsBounded ==
    /\ Len(Fg.acc) <= BACKTEST_MAX_DRAWS
    /\ Fg.cnt <= BACKTEST_MAX_ATTEMPTS
    /\ Len(Fg.calls) \in {Fg.cnt, Fg.cnt + 1}
    /\ \A i \in 2..Len(Fg.calls) : Fg.calls[i] = Fg.calls[1] - (i - 1)
    /\ \A i \in DOMAIN Fg.acc : Fg.acc[i].contest < Fg.calls[1]

\* the answer is ok exactly when the walk gathered enough draws and the
\* suggestion made of them is complete, and an error otherwise
AnswerIsSound ==
    /\ Fg.ret.k \in {"result", "error"}
    /\ Fg.ret.k = "result" <=>
            /\ BacktestWalk
            /\ Len(Fg.acc) >= BACKTEST_MIN_DRAWS
            /\ Len(build_parity_suggestion(Fg.acc, 8, 7).combo) = 15
    /\ Fg.ret.k = "result" =>
            /\ Fg.ret.contest = Fg.calls[1]
            /\ Fg.ret.previous_draws = Fg.acc
            /\ Fg.ret.sugg = build_parity_suggestion(Fg.acc, 8, 7)
            /\ Fg.ret.suggested = Fg.ret.sugg.combo
            /\ Fg.ret.historical_draws_used = Len(Fg.acc)

\* C37: backtest_latest builds its suggestion only from draws whose
\* contest number is strictly smaller than the latest contest, at most 50
\* of them, gathered in at most 150 resolve_contest attempts walking down
\* from latest - 1; it answers ok only when at least 20 such draws were
\* gathered and the combo has exactly 15 numbers, and otherwise it answers
\* with an error, never with an exception.
C37_BacktestUsesEarlierDraws ==
    /\ BacktestWalk => WalkIsBounded
    /\ Backtested => AnswerIsSound

\* C37 witness: a backtest answered ok from the 50 draws below the latest
\* contest, the walk having stopped at its bound of draws
C37_Witness ==
    /\ Backtested /\ Fg.ret.k = "result"
    /\ Len(Fg.ret.previous_draws) = BACKTEST_MAX_DRAWS
    /\ Fg.ret.previous_draws[1].contest = Fg.ret.contest - 1
    /\ Fg.cnt < BACKTEST_MAX_ATTEMPTS

=============================================================================
